---- MODULE Spec2Model ----
(***************************************************************************)
(* Order lifecycle engine of the pf-blotter FIX gateway.                   *)
(*                                                                         *)
(* Three threads share one OrderStore and one MarketSim:                   *)
(*   - the FIX acceptor thread (FixApplication::onMessage),                *)
(*   - the HTTP thread (order / cancel / amend handlers of gateway_main),  *)
(*   - the Fill-Loop thread (FillSimulator::run).                          *)
(* Every OrderStore method is one critical section (std::lock_guard), so   *)
(* it is one atomic step here; a handler that calls the Store twice is two *)
(* steps and other threads may run in between.  A MarketSim call whose     *)
(* result is only used locally is taken in the same step as the Store call *)
(* that follows it.                                                        *)
(*                                                                         *)
(* Prices are whole currency units; avgPx, a double in the code, is kept   *)
(* as an exact fraction <<num, den>>, so rounding is abstracted away.      *)
(* The random tick and the random fill ratio are drawn nondeterministically;*)
(* the traded symbol is one the Market-Data Feed ticks four times a second, *)
(* so the mark an order handler reads is any tick as well.                  *)
(*                                                                         *)
(* Further components are modelled on their own variables, each with its   *)
(* own next-state relation: the Event Bus (SseBroker and the GET /events   *)
(* content provider), the Persistence Log (PersistenceManager), the Market *)
(* Simulator with its random engine (MarketSim), the OrderStore called by  *)
(* several threads and its statistics, the identifier counters of          *)
(* FixApplication, the mutexes the threads of the gateway take, the start  *)
(* and shutdown sequence of main(), and the publication of snapshots.      *)
(***************************************************************************)
EXTENDS Integers, Sequences, FiniteSets, TLC

\* ---------------------------------------------------------------- bounds
MaxFixMsgs == 2
MaxUiReqs == 1
MaxTicks == 2
MaxSubscribers == 2
MaxPublishes == 2
MaxStoreOps == 3
MaxCalls == 3
MaxStoreThreads == 2
MaxStoreCalls == 4
MaxStatsOrders == 100
MaxMixedOrders == 2
MaxIdThreads == 2
MaxIdCalls == 14
MaxLockThreads == 2
MaxLockRuns == 2
MaxIterations == 1
MaxHandlerWrites == 2
MaxSleepChunks == 2
MaxSnapRuns == 3

\* ------------------------------------------------------ program constants
MAX_ORDER_QTY == 10000
MAX_NOTIONAL == 1000000
ORD_REJ_UNKNOWN_SYMBOL == 1
ORD_REJ_ORDER_EXCEEDS_LIMIT == 3
ORD_REJ_DUPLICATE_ORDER == 6
ORD_REJ_OTHER == 99
SmallOrderQty == 100

\* ------------------------------------------------------------ input sets
ClOrdIds == {"A", "B"}
Ticks == {180, 190}
FillRatios == {5}

\* Every combination of valid and invalid fields of a NewOrderSingle.
FixSymbols == {"", "AAPL"}
FixSides == {"1", "2", "3"}
FixQtys == {0, 200, 10001}
FixPrices == {<<FALSE, 0>>, <<TRUE, 0>>, <<TRUE, 185>>, <<TRUE, 5001>>}

Terminal == {"FILLED", "REJECTED", "CANCELED"}
Open == {"NEW", "PARTIAL"}

\* ------------------------------------------------------------- fractions
RECURSIVE Gcd(_, _)
Gcd(a, b) == IF b = 0 THEN a ELSE Gcd(b, a % b)

Frac(n, d) == IF n = 0 THEN <<0, 1>> ELSE <<n \div Gcd(n, d), d \div Gcd(n, d)>>

Px(p) == <<p, 1>>

\* ----------------------------------------------------------- OrderRecord
OrderRecord == [clOrdId |-> "", symbol |-> "", side |-> "0", price |-> 0,
                quantity |-> 0, leavesQty |-> 0, cumQty |-> 0,
                avgPx |-> <<0, 1>>, status |-> "", rejectReason |-> ""]

\* ------------------------------------------------------------ OrderStore
\* A store is [orders |-> map clOrdId -> record, orderIndex |-> sequence].
EmptyStore == [orders |-> << >>, orderIndex |-> << >>]

exists(s, id) == id \in DOMAIN s.orders

get(s, id) == IF id \in DOMAIN s.orders THEN s.orders[id] ELSE OrderRecord

\* Variant of upsert that moves an overwritten key to the end of the index;
\* C20 must tell it from upsert.
upsertMoveToBack(s, rec) ==
    [orders |-> [c \in DOMAIN s.orders \cup {rec.clOrdId} |->
                    IF c = rec.clOrdId THEN rec ELSE s.orders[c]],
     orderIndex |-> Append(SelectSeq(s.orderIndex, LAMBDA c : c # rec.clOrdId),
                           rec.clOrdId)]

upsert(s, rec) ==
    IF rec.clOrdId \notin DOMAIN s.orders
    THEN [orders |-> [c \in DOMAIN s.orders \cup {rec.clOrdId} |->
                         IF c = rec.clOrdId THEN rec ELSE s.orders[c]],
          orderIndex |-> Append(s.orderIndex, rec.clOrdId)]
    ELSE [s EXCEPT !.orders[rec.clOrdId] = rec]

updateStatus(s, id, status, leavesQty, cumQty, avgPx) ==
    IF id \notin DOMAIN s.orders
    THEN s
    ELSE [s EXCEPT !.orders[id].status = status,
                   !.orders[id].leavesQty = leavesQty,
                   !.orders[id].cumQty = cumQty,
                   !.orders[id].avgPx = avgPx]

\* Variant of reject that records a REJECTED entry for a key the store does
\* not hold; C21 must tell it from reject.
rejectCreating(s, id, reason) ==
    [s EXCEPT !.orders = [c \in DOMAIN s.orders \cup {id} |->
                             IF c = id
                             THEN [clOrdId |-> id, status |-> "REJECTED",
                                   rejectReason |-> reason]
                             ELSE s.orders[c]]]

reject(s, id, reason) ==
    IF id \notin DOMAIN s.orders
    THEN s
    ELSE [s EXCEPT !.orders[id].status = "REJECTED",
                   !.orders[id].rejectReason = reason]

getOpenOrders(s) ==
    {s.orders[c] : c \in {d \in DOMAIN s.orders : s.orders[d].status \in Open}}

\* OrderStore::remove(clOrdId), called by the amend handler when the key
\* changes: the key is erased from the map and from the index.
remove(s, id) ==
    [orders |-> [c \in DOMAIN s.orders \ {id} |-> s.orders[c]],
     orderIndex |-> SelectSeq(s.orderIndex, LAMBDA c : c # id)]

\* ------------------------------------------------------------- MarketSim
shouldFill(side, limitPx, px) ==
    IF side = "1" THEN px <= limitPx
    ELSE IF side = "2" THEN px >= limitPx
    ELSE FALSE

Max(a, b) == IF a >= b THEN a ELSE b
Min(a, b) == IF a <= b THEN a ELSE b

\* px is the tick drawn by nextTickUnsafe, ratio the fill ratio in tenths.
\* Variant of attemptFill that marks a fill complete only on the branch of
\* the small orders; C28 must tell it from attemptFill.
attemptFillCompleteWhenSmall(side, limitPx, leavesQty, px, ratio) ==
    IF leavesQty <= 0 \/ ~shouldFill(side, limitPx, px)
    THEN [fillQty |-> 0, fillPx |-> 0, complete |-> FALSE]
    ELSE IF leavesQty <= SmallOrderQty
    THEN [fillQty |-> leavesQty, fillPx |-> px, complete |-> TRUE]
    ELSE [fillQty |-> Min(Max(1, (leavesQty * ratio) \div 10), leavesQty),
          fillPx |-> px, complete |-> FALSE]

attemptFill(side, limitPx, leavesQty, px, ratio) ==
    IF leavesQty <= 0
    THEN [fillQty |-> 0, fillPx |-> 0, complete |-> FALSE]
    ELSE IF ~shouldFill(side, limitPx, px)
    THEN [fillQty |-> 0, fillPx |-> 0, complete |-> FALSE]
    ELSE LET raw == IF leavesQty <= SmallOrderQty
                    THEN leavesQty
                    ELSE Max(1, (leavesQty * ratio) \div 10)
             qty == Min(raw, leavesQty)
         IN  [fillQty |-> qty, fillPx |-> px, complete |-> qty >= leavesQty]

\* ------------------------------------------------------ Event Bus state
\* The snapshot channel of the HTTP server (SseBroker broker_) and the
\* subscribers of GET /events.
VARIABLES
    subscribers,  \* per subscriber: "none", "alive" (registered), "gone" (expired)
    queue,        \* per subscriber: Subscriber::queue
    sink,         \* per subscriber: the frames its content provider wrote, in order
    pinged,       \* per subscriber: its latest write was a ping
    published,    \* history: the payloads passed to publish, in call order
    joinedAt      \* history: per subscriber, Len(published) when it subscribed

busVars == <<subscribers, queue, sink, pinged, published, joinedAt>>

Subs == 1..MaxSubscribers
Payloads == {"X", "Y"}

BusInit ==
    /\ subscribers = [s \in Subs |-> "none"]
    /\ queue = [s \in Subs |-> << >>]
    /\ sink = [s \in Subs |-> << >>]
    /\ pinged = [s \in Subs |-> FALSE]
    /\ published = << >>
    /\ joinedAt = [s \in Subs |-> 0]

\* ---------------------------------------------------- Persistence state
\* The PersistenceManager of gateway_main (data/orders.json, saved by a
\* background worker and on shutdown) and the OrderStore handed to it.
\* doSave and load each hold mutex_ from entry to return, so each call is
\* one atomic step.
VARIABLES
    pStore,        \* the OrderStore passed to start / saveNow
    storeOps,      \* upserts applied to pStore
    canonical,     \* the file at filePath_
    tmpFile,       \* the file at filePath_ + ".tmp"
    running_,      \* PersistenceManager::running_
    saveCount_,    \* PersistenceManager::saveCount_
    workerPc,      \* backgroundSave: "none", "sleep", "check", "loop", "final", "done"
    stopPc,        \* stop(): "idle", "join", "returned"
    saveReturned,  \* the doSave call that returned in the latest step, or "none"
    lastSaved,     \* history: whether a doSave has returned, and the store it was given
    finalSaved,    \* history: the final doSave of the worker wrote its document
    loaded         \* the fresh OrderStore filled by the latest load, with its count

persistVars == <<pStore, storeOps, canonical, tmpFile, running_, saveCount_,
                 workerPc, stopPc, saveReturned, lastSaved, finalSaved, loaded>>

\* JSON values (nlohmann::json): an array has items, an object has members.
JsonNull == [type |-> "null"]
JsonNumber == [type |-> "number"]
JsonArray(items) == [type |-> "array", items |-> items]
JsonObject(members) == [type |-> "object", members |-> members]

\* The fields OrderStore::snapshotJson writes of a record.
PersistedFields == {"clOrdId", "orderId", "symbol", "side", "price", "quantity",
                    "leavesQty", "cumQty", "avgPx", "status", "rejectReason",
                    "transactTime", "latencyUs"}

\* A full OrderRecord (OrderStore.hpp), with the performance metrics.
FullRecord(id, status, leaves, cum) ==
    [clOrdId |-> id, orderId |-> "ORD1", symbol |-> "AAPL", side |-> "1",
     price |-> 185, quantity |-> 200, leavesQty |-> leaves, cumQty |-> cum,
     avgPx |-> IF cum = 0 THEN <<0, 1>> ELSE <<185, 1>>, status |-> status,
     rejectReason |-> "", transactTime |-> "20240101-00:00:00",
     submitTimeUs |-> 7, ackTimeUs |-> 9, fillTimeUs |-> 0, latencyUs |-> 2]

FullRecords ==
    {FullRecord(id, "NEW", 200, 0) : id \in ClOrdIds}
    \cup {FullRecord(id, "FILLED", 0, 200) : id \in ClOrdIds}

\* A file: absent, or present with text that parses to json or does not.
NoFile == [present |-> FALSE, wellFormed |-> FALSE, json |-> JsonNull]
FileOf(j) == [present |-> TRUE, wellFormed |-> TRUE, json |-> j]
Garbage == [present |-> TRUE, wellFormed |-> FALSE, json |-> JsonNull]

\* What data/orders.json may hold when the gateway starts.
PreexistingFiles ==
    {NoFile,
     Garbage,
     FileOf(JsonObject([version |-> 1])),
     FileOf(JsonObject([version |-> 1, savedAt |-> 0,
                        orders |-> JsonArray(<<JsonObject([clOrdId |-> "A",
                                                            quantity |-> 200])>>)])),
     FileOf(JsonObject([orders |-> JsonArray(<<JsonObject([clOrdId |-> "A"]),
                                               JsonObject([symbol |-> "AAPL"]),
                                               JsonObject([clOrdId |-> "B"])>>)])),
     FileOf(JsonObject([orders |-> JsonArray(<<JsonObject([clOrdId |-> "A"]),
                                               JsonNumber,
                                               JsonObject([clOrdId |-> "B"])>>)]))}

NoLoad == [done |-> FALSE, count |-> 0, store |-> EmptyStore, after |-> FALSE,
           saved |-> EmptyStore]

PersistInit ==
    /\ pStore = EmptyStore
    /\ storeOps = 0
    /\ canonical = NoFile
    /\ tmpFile = NoFile
    /\ running_ = FALSE
    /\ saveCount_ = 0
    /\ workerPc = "none"
    /\ stopPc = "idle"
    /\ saveReturned = "none"
    /\ lastSaved = [done |-> FALSE, store |-> EmptyStore]
    /\ finalSaved = FALSE
    /\ loaded = NoLoad

\* -------------------------------------------------- Market Simulator state
\* Two MarketSim objects built with the same seed, start price and step and
\* driven with the same calls (tests/test_market_sim.cpp, DeterministicWithSeed).
\* Prices are in cents.  The engine rng_ is a full-period generator over
\* 0..RngModulus-1; each draw of dist_, fillRatio_ or qtyDist_ advances it
\* once and maps its output into the distribution's range.
VARIABLES
    sims,        \* per simulator: [built, rng_, state_, startPrice_, step_]
    calls,       \* history: the calls issued so far, in order
    returns      \* per simulator: the values its calls returned, in order

simVars == <<sims, calls, returns>>

SimIds == {1, 2}
RngModulus == 16
Seeds == {0, 7}
StartPrices == {100, 10000}
Steps == {5}
SimSymbols == {"AAPL", "ZZZ"}
Depths == {0, 2}

NoSim == [built |-> FALSE, rng_ |-> 0, state_ |-> << >>, startPrice_ |-> 0, step_ |-> 0]

SimInit ==
    /\ sims = [i \in SimIds |-> NoSim]
    /\ calls = << >>
    /\ returns = [i \in SimIds |-> << >>]

\* ------------------------------------------------- OrderStore API state
\* One OrderStore called by several threads (tests/test_order_store.cpp,
\* ConcurrentAccess).  Every method locks mutex_ on entry and holds it to its
\* return, so a call is two steps: the thread decides on the call, then the
\* call runs as one critical section.
VARIABLES
    tStore,     \* the OrderStore under test
    tPc,        \* per thread: the call it has decided on and not yet run, or NoCall
    tDone,      \* calls run so far
    present,    \* history: the clOrdIds upserted and not removed since
    tLast       \* the call run in the latest step of a thread, and what it returned

storeApiVars == <<tStore, tPc, tDone, present, tLast>>

StoreThreads == 1..MaxStoreThreads

NoCall == [op |-> "none", id |-> "", rec |-> OrderRecord]
NoReturn == [op |-> "none", id |-> "", absent |-> FALSE, flag |-> FALSE, count |-> 0,
             p99 |-> 0]

StoreApiInit ==
    /\ tStore = EmptyStore
    /\ tPc = [th \in StoreThreads |-> NoCall]
    /\ tDone = 0
    /\ present = {}
    /\ tLast = NoReturn

\* ------------------------------------------------- FIX identifier state
\* FixApplication numbers the orders and the execution reports it sends from
\* two atomic counters; the FIX engine may run handlers of several sessions
\* at once.
VARIABLES
    orderCounter_,  \* FixApplication::orderCounter_
    execCounter_,   \* FixApplication::execCounter_
    idPc,           \* per thread: the identifiers its handler still draws
    orderIds,       \* history: the order identifiers returned, in order
    execIds         \* history: the execution identifiers returned, in order

idVars == <<orderCounter_, execCounter_, idPc, orderIds, execIds>>

IdThreads == 1..MaxIdThreads

IdInit ==
    /\ orderCounter_ = 1
    /\ execCounter_ = 1
    /\ idPc = [th \in IdThreads |-> << >>]
    /\ orderIds = << >>
    /\ execIds = << >>

\* ------------------------------------------------------------ lock state
\* The mutexes of the gateway and the threads that take them: the handlers of
\* the HTTP server, which httplib runs on the threads of a pool, the worker of
\* the Persistence Log and the content provider of an /events connection.
VARIABLES
    holding,      \* per thread: the mutexes it holds, in the order it took them
    lockPc,       \* per thread: the steps its call still has to take
    lockRuns,     \* calls started so far
    storeOrder,   \* history: the mutations, in the order they took OrderStore::mutex_
    auditOrder    \* the Audit Log: its records, in the order they were written

lockVars == <<holding, lockPc, lockRuns, storeOrder, auditOrder>>

LockThreads == 1..MaxLockThreads

LockInit ==
    /\ holding = [th \in LockThreads |-> << >>]
    /\ lockPc = [th \in LockThreads |-> << >>]
    /\ lockRuns = 0
    /\ storeOrder = << >>
    /\ auditOrder = << >>

\* -------------------------------------------------------- shutdown state
\* main() of the gateway, from the start of its components to the end of its
\* shutdown sequence, and the three worker threads it starts and stops: the
\* Fill Loop, the Market-Data Feed and the worker of the Persistence Log.
VARIABLES
    mainPc,        \* where main() is
    wRunning,      \* per worker: its running_ flag
    wState,        \* per worker: "none" (no thread), "loop" or "exited"
    wPc,           \* per worker: the steps left of its current iteration
    wHolding,      \* per worker: the mutexes it holds
    wIters,        \* per worker: iterations begun
    serving,       \* the handler sources that are up: "fix", "http"
    storeVersion,  \* mutations of the Order Store so far
    finalSave,     \* the final save of the Persistence worker, and the version it saw
    stopped        \* the workers whose stop() has returned

shutdownVars == <<mainPc, wRunning, wState, wPc, wHolding, wIters, serving,
                  storeVersion, finalSave, stopped>>

Workers == {"fill", "feed", "persist"}

ShutdownInit ==
    /\ mainPc = "start"
    /\ wRunning = [w \in Workers |-> FALSE]
    /\ wState = [w \in Workers |-> "none"]
    /\ wPc = [w \in Workers |-> << >>]
    /\ wHolding = [w \in Workers |-> << >>]
    /\ wIters = [w \in Workers |-> 0]
    /\ serving = {}
    /\ storeVersion = 0
    /\ finalSave = [done |-> FALSE, version |-> 0]
    /\ stopped = {}

\* The components that no step of the gateway threads touches.
\* ------------------------------------------- state of snapshot publication
\* Two threads that change the OrderStore and then call
\* publishEvent(store.snapshotString()): an HTTP handler and the Fill Loop.
\* snapshotString runs under the store's mutex, SseBroker::publish under the
\* broker's, and the thread holds neither in between.
VARIABLES
    snapStore,   \* the OrderStore
    snapPc,      \* per thread: the call it makes next
    snapOpen,    \* the Fill Loop: the copied open orders it has still to visit
    snapAny,     \* the Fill Loop: anyFilled
    snapText,    \* per thread: the string snapshotString() returned to it
    snapQueue,   \* the subscriber's queue
    snapSink,    \* the frames the subscriber's content provider wrote, in order
    snapRuns     \* handler calls and Fill Loop iterations started so far

snapVars == <<snapStore, snapPc, snapOpen, snapAny, snapText, snapQueue, snapSink,
             snapRuns>>

SnapThreads == {"http", "fillLoop"}

NoText == [text |-> JsonNull]

SnapInit ==
    /\ snapStore = EmptyStore
    /\ snapPc = [th \in SnapThreads |-> "idle"]
    /\ snapOpen = {}
    /\ snapAny = FALSE
    /\ snapText = [th \in SnapThreads |-> NoText]
    /\ snapQueue = << >>
    /\ snapSink = << >>
    /\ snapRuns = 0

otherVars == <<busVars, persistVars, simVars, storeApiVars, idVars, lockVars,
               shutdownVars, snapVars>>

\* ------------------------------------------------------------- variables
VARIABLES
    store,        \* the OrderStore
    pub,          \* the thread whose snapshot the latest step published, or "none"
    fixReport,    \* the ExecutionReport / OrderCancelReject the latest step sent, if any
    uiResult,     \* the [ok, msg] a UI handler returned in the latest step, if any
    fixPc,        \* FIX thread: position in onMessage
    fixMsg,       \* FIX thread: message being handled
    fixReason,    \* FIX thread: local rejectReason
    fixCount,     \* FIX messages received
    uiPc,         \* HTTP thread: position in the handler
    uiReq,        \* HTTP thread: request being handled
    uiRec,        \* HTTP thread: local OrderRecord
    uiCount,      \* UI requests received
    fillPc,       \* Fill Loop: "sleep" or "fill"
    openOrders,   \* Fill Loop: copies returned by getOpenOrders, not yet processed
    anyFilled,    \* Fill Loop: local flag
    tickCount,    \* Fill-Loop iterations started
    audit,        \* the Audit Log: the set of <<event, clOrdId>> records written
    fills,        \* history: per clOrdId, the fills applied to the order stored there
    admitted      \* history: per clOrdId, number of admissions as NEW

gatewayVars == <<store, pub, fixReport, uiResult, fixPc, fixMsg, fixReason, fixCount,
                 uiPc, uiReq, uiRec, uiCount, fillPc, openOrders, anyFilled, tickCount,
                 audit, fills, admitted>>

vars == <<gatewayVars, otherVars>>

\* What the steps of one component leave alone.
besidesBus == <<gatewayVars, persistVars, simVars, storeApiVars, idVars, lockVars,
    shutdownVars, snapVars>>
besidesPersistence == <<gatewayVars, busVars, simVars, storeApiVars, idVars, lockVars,
    shutdownVars, snapVars>>
besidesSim == <<gatewayVars, busVars, persistVars, storeApiVars, idVars, lockVars,
    shutdownVars, snapVars>>
besidesStoreApi == <<gatewayVars, busVars, persistVars, simVars, idVars, lockVars,
    shutdownVars, snapVars>>
besidesIds == <<gatewayVars, busVars, persistVars, simVars, storeApiVars, lockVars,
    shutdownVars, snapVars>>
besidesLocks == <<gatewayVars, busVars, persistVars, simVars, storeApiVars, idVars,
    shutdownVars, snapVars>>
besidesShutdown == <<gatewayVars, busVars, persistVars, simVars, storeApiVars, idVars,
    lockVars, snapVars>>
besidesSnapshots == <<gatewayVars, busVars, persistVars, simVars, storeApiVars, idVars,
    lockVars, shutdownVars>>

fixVars == <<fixPc, fixMsg, fixReason, fixCount>>
uiVars == <<uiPc, uiReq, uiRec, uiCount>>
fillVars == <<fillPc, openOrders, anyFilled, tickCount>>

NoMsg == [type |-> "none", clOrdId |-> "", origClOrdId |-> "", symbol |-> "",
          side |-> "0", qty |-> 0, hasPrice |-> FALSE, px |-> 0]
NoReport == [type |-> "none", ordStatus |-> "", text |-> "", code |-> 0, orderId |-> "", origClOrdId |-> ""]
NoReq == [type |-> "none", clOrdId |-> "", origClOrdId |-> "", symbol |-> "",
          side |-> "0", quantity |-> 0, price |-> 0, orderType |-> "2",
          newQuantity |-> 0, newPrice |-> 0]
NoResult == [ok |-> FALSE, msg |-> ""]
Ok == [ok |-> TRUE, msg |-> ""]
NoFills == [q |-> 0, pq |-> 0, direct |-> FALSE]

\* What a step sends out: the snapshot's publisher, the FIX report, the UI
\* result, and the records it appends to the Audit Log.
EmitAudit(p, report, result, records) ==
    /\ pub' = p
    /\ fixReport' = report
    /\ uiResult' = result
    /\ audit' = audit \cup records

Emit(p, report, result) == EmitAudit(p, report, result, {})

\* The history after a fill of q at px written to the record stored under id
\* (a write to an absent key is a no-op of updateStatus); direct marks a fill
\* made by an admission handler rather than by the Fill Loop.
recordFill(f, s, id, q, px, direct) ==
    IF exists(s, id)
    THEN [f EXCEPT ![id] = [q |-> @.q + q, pq |-> @.pq + q * px,
                            direct |-> @.direct \/ direct]]
    ELSE f

Init ==
    /\ store = EmptyStore
    /\ audit = {}
    /\ pub = "none"
    /\ fixReport = NoReport
    /\ uiResult = NoResult
    /\ fixPc = "idle"
    /\ fixMsg = NoMsg
    /\ fixReason = ""
    /\ fixCount = 0
    /\ uiPc = "idle"
    /\ uiReq = NoReq
    /\ uiRec = OrderRecord
    /\ uiCount = 0
    /\ fillPc = "sleep"
    /\ openOrders = {}
    /\ anyFilled = FALSE
    /\ tickCount = 0
    /\ fills = [c \in ClOrdIds |-> NoFills]
    /\ admitted = [c \in ClOrdIds |-> 0]
    /\ BusInit
    /\ PersistInit
    /\ SimInit
    /\ StoreApiInit
    /\ IdInit
    /\ LockInit
    /\ ShutdownInit
    /\ SnapInit

\* --------------------------------------------- FIX: NewOrderSingle (D)
AllNewOrderSingles ==
    {[type |-> "D", clOrdId |-> c, origClOrdId |-> "", symbol |-> sy, side |-> sd,
      qty |-> q, hasPrice |-> p[1], px |-> p[2]] :
        c \in ClOrdIds, sy \in FixSymbols, sd \in FixSides, q \in FixQtys, p \in FixPrices}

\* The messages of the concurrent specification: a limit buy and one invalid order.
NewOrderSingles ==
    {m \in AllNewOrderSingles :
        /\ m.symbol = "AAPL" /\ m.side = "1" /\ m.hasPrice /\ m.px = 185
        /\ m.qty \in {0, 200}}

\* Variant of the chain with the duplicate check moved in front of the two
\* limit checks; C5 must tell it from preTradeValidation.
preTradeValidationDuplicateFirst(s, m) ==
    IF m.symbol = "" THEN <<"Symbol is required", ORD_REJ_UNKNOWN_SYMBOL>>
    ELSE IF m.side # "1" /\ m.side # "2"
        THEN <<"Invalid side (must be 1=Buy or 2=Sell)", ORD_REJ_OTHER>>
    ELSE IF m.qty <= 0 THEN <<"OrderQty must be positive", ORD_REJ_OTHER>>
    ELSE IF m.hasPrice /\ m.px <= 0
        THEN <<"Price must be positive for limit orders", ORD_REJ_OTHER>>
    ELSE IF exists(s, m.clOrdId) THEN <<"Duplicate ClOrdID", ORD_REJ_DUPLICATE_ORDER>>
    ELSE IF m.qty > MAX_ORDER_QTY
        THEN <<"Order quantity exceeds limit (10000)", ORD_REJ_ORDER_EXCEEDS_LIMIT>>
    ELSE IF m.hasPrice /\ m.qty * m.px > MAX_NOTIONAL
        THEN <<"Notional exceeds limit ($1000000)", ORD_REJ_ORDER_EXCEEDS_LIMIT>>
    ELSE <<"", 0>>

\* Variant of the chain without the notional check; C18 must tell it from
\* preTradeValidation.
preTradeValidationNoNotional(s, m) ==
    IF m.symbol = "" THEN <<"Symbol is required", ORD_REJ_UNKNOWN_SYMBOL>>
    ELSE IF m.side # "1" /\ m.side # "2"
        THEN <<"Invalid side (must be 1=Buy or 2=Sell)", ORD_REJ_OTHER>>
    ELSE IF m.qty <= 0 THEN <<"OrderQty must be positive", ORD_REJ_OTHER>>
    ELSE IF m.hasPrice /\ m.px <= 0
        THEN <<"Price must be positive for limit orders", ORD_REJ_OTHER>>
    ELSE IF m.qty > MAX_ORDER_QTY
        THEN <<"Order quantity exceeds limit (10000)", ORD_REJ_ORDER_EXCEEDS_LIMIT>>
    ELSE IF exists(s, m.clOrdId) THEN <<"Duplicate ClOrdID", ORD_REJ_DUPLICATE_ORDER>>
    ELSE <<"", 0>>

\* The pre-trade validation chain: <<reason, code>>, reason "" when accepted.
preTradeValidation(s, m) ==
    IF m.symbol = "" THEN <<"Symbol is required", ORD_REJ_UNKNOWN_SYMBOL>>
    ELSE IF m.side # "1" /\ m.side # "2"
        THEN <<"Invalid side (must be 1=Buy or 2=Sell)", ORD_REJ_OTHER>>
    ELSE IF m.qty <= 0 THEN <<"OrderQty must be positive", ORD_REJ_OTHER>>
    ELSE IF m.hasPrice /\ m.px <= 0
        THEN <<"Price must be positive for limit orders", ORD_REJ_OTHER>>
    ELSE IF m.qty > MAX_ORDER_QTY
        THEN <<"Order quantity exceeds limit (10000)", ORD_REJ_ORDER_EXCEEDS_LIMIT>>
    ELSE IF m.hasPrice /\ m.qty * m.px > MAX_NOTIONAL
        THEN <<"Notional exceeds limit ($1000000)", ORD_REJ_ORDER_EXCEEDS_LIMIT>>
    ELSE IF exists(s, m.clOrdId) THEN <<"Duplicate ClOrdID", ORD_REJ_DUPLICATE_ORDER>>
    ELSE <<"", 0>>

rejectedRecord(m, reason) ==
    [OrderRecord EXCEPT !.clOrdId = m.clOrdId, !.symbol = m.symbol, !.side = m.side,
                        !.price = m.px, !.quantity = m.qty, !.leavesQty = 0,
                        !.cumQty = 0, !.avgPx = Px(0), !.status = "REJECTED",
                        !.rejectReason = reason]

\* Variant of the admitted record with nothing left to fill; C19 must tell it
\* from newRecord.
newRecordNoLeaves(m) ==
    [OrderRecord EXCEPT !.clOrdId = m.clOrdId, !.symbol = m.symbol, !.side = m.side,
                        !.price = m.px, !.quantity = m.qty, !.leavesQty = 0,
                        !.cumQty = 0, !.avgPx = Px(0), !.status = "NEW"]

newRecord(m) ==
    [OrderRecord EXCEPT !.clOrdId = m.clOrdId, !.symbol = m.symbol, !.side = m.side,
                        !.price = m.px, !.quantity = m.qty, !.leavesQty = m.qty,
                        !.cumQty = 0, !.avgPx = Px(0), !.status = "NEW"]

\* Validation and the first ExecutionReport (REJECTED or NEW).
FixNewOrderCheck(Msgs) ==
    /\ fixPc = "idle"
    /\ fixCount < MaxFixMsgs
    /\ \E m \in Msgs :
         LET v == preTradeValidation(store, m) IN
         /\ fixMsg' = m
         /\ fixReason' = v[1]
         /\ fixCount' = fixCount + 1
         /\ IF v[1] # ""
            THEN /\ fixPc' = "nosReject"
                 /\ Emit("none", [type |-> "ExecutionReport", ordStatus |-> "REJECTED",
                                  text |-> v[1], code |-> v[2], orderId |-> "ORD", origClOrdId |-> ""],
                         NoResult)
            ELSE /\ fixPc' = "nosUpsert"
                 /\ Emit("none", [type |-> "ExecutionReport", ordStatus |-> "NEW",
                                  text |-> "", code |-> 0, orderId |-> "ORD", origClOrdId |-> ""],
                         NoResult)
    /\ UNCHANGED <<store, uiVars, fillVars, fills, admitted>>
    /\ UNCHANGED otherVars

\* Reject path: the rejected order is recorded in the store and published.
FixNewOrderReject ==
    /\ fixPc = "nosReject"
    /\ store' = upsert(store, rejectedRecord(fixMsg, fixReason))
    /\ fills' = [fills EXCEPT ![fixMsg.clOrdId] = NoFills]
    /\ Emit("fix", NoReport, NoResult)
    /\ fixPc' = "idle"
    /\ fixMsg' = NoMsg
    /\ fixReason' = ""
    /\ UNCHANGED <<fixCount, uiVars, fillVars, admitted>>
    /\ UNCHANGED otherVars

\* Ack path: the record is stored as NEW.
FixNewOrderUpsert ==
    /\ fixPc = "nosUpsert"
    /\ store' = upsert(store, newRecord(fixMsg))
    /\ fills' = [fills EXCEPT ![fixMsg.clOrdId] = NoFills]
    /\ admitted' = [admitted EXCEPT ![fixMsg.clOrdId] = @ + 1]
    /\ Emit("none", NoReport, NoResult)
    /\ fixPc' = "nosFill"
    /\ UNCHANGED <<fixMsg, fixReason, fixCount, uiVars, fillVars>>
    /\ UNCHANGED otherVars

\* Fill path: a priced order that crosses the next tick is filled at once;
\* the snapshot is published in either case.
FixNewOrderFill ==
    /\ fixPc = "nosFill"
    /\ \E px \in Ticks :
         IF fixMsg.hasPrice /\ shouldFill(fixMsg.side, fixMsg.px, px)
         THEN /\ store' = updateStatus(store, fixMsg.clOrdId, "FILLED", 0,
                                       fixMsg.qty, Px(fixMsg.px))
              /\ fills' = recordFill(fills, store, fixMsg.clOrdId, fixMsg.qty, fixMsg.px, TRUE)
              /\ Emit("fix", [type |-> "ExecutionReport", ordStatus |-> "FILLED",
                              text |-> "", code |-> 0, orderId |-> "ORD", origClOrdId |-> ""], NoResult)
         ELSE /\ UNCHANGED <<store, fills>>
              /\ Emit("fix", NoReport, NoResult)
    /\ fixPc' = "idle"
    /\ fixMsg' = NoMsg
    /\ UNCHANGED <<fixReason, fixCount, uiVars, fillVars, admitted>>
    /\ UNCHANGED otherVars

\* ------------------------------------------- FIX: OrderCancelRequest (F)
OrderCancelRequests ==
    {[NoMsg EXCEPT !.type = "F", !.origClOrdId = c] : c \in ClOrdIds}

\* The response chosen from the copy returned by store_.get(origClOrdId).
cancelResponse(s, m) ==
    LET record == get(s, m.origClOrdId) IN
    IF ~exists(s, m.origClOrdId)
    THEN [type |-> "OrderCancelReject", ordStatus |-> "REJECTED",
          text |-> "UNKNOWN_ORDER", code |-> 0, orderId |-> "UNKNOWN",
          origClOrdId |-> m.origClOrdId]
    ELSE IF record.status = "FILLED"
    THEN [type |-> "OrderCancelReject", ordStatus |-> "FILLED",
          text |-> "TOO_LATE_TO_CANCEL", code |-> 0, orderId |-> "ORD",
          origClOrdId |-> m.origClOrdId]
    ELSE IF record.status = "CANCELED"
    THEN [type |-> "OrderCancelReject", ordStatus |-> "CANCELED",
          text |-> "DUPLICATE_CLORDID", code |-> 0, orderId |-> "ORD",
          origClOrdId |-> m.origClOrdId]
    ELSE [type |-> "ExecutionReport", ordStatus |-> "CANCELED",
          text |-> "", code |-> 0, orderId |-> m.origClOrdId,
          origClOrdId |-> m.origClOrdId]

\* Lookup and response; the three rejects return here.
FixCancelCheck ==
    /\ fixPc = "idle"
    /\ fixCount < MaxFixMsgs
    /\ \E m \in OrderCancelRequests :
         LET r == cancelResponse(store, m) IN
         /\ fixCount' = fixCount + 1
         /\ Emit("none", r, NoResult)
         /\ IF r.type = "OrderCancelReject"
            THEN fixPc' = "idle" /\ fixMsg' = NoMsg
            ELSE fixPc' = "cxlWrite" /\ fixMsg' = m
    /\ UNCHANGED <<store, fixReason, uiVars, fillVars, fills, admitted>>
    /\ UNCHANGED otherVars

\* The record is updated to CANCELED and the snapshot published.
FixCancelWrite ==
    /\ fixPc = "cxlWrite"
    /\ store' = updateStatus(store, fixMsg.origClOrdId, "CANCELED", 0, 0, Px(0))
    /\ Emit("fix", NoReport, NoResult)
    /\ fixPc' = "idle"
    /\ fixMsg' = NoMsg
    /\ UNCHANGED <<fixReason, fixCount, uiVars, fillVars, fills, admitted>>
    /\ UNCHANGED otherVars

\* ------------------------------------------------ HTTP: order handler
UiSides == {"1"}
UiQtys == {200, 10001}
UiLimitPrices == {185, 5001}
AmendQtys == {0, 100, 250}
AmendPrices == {0, 186, 6000}

OrderRequests ==
    {[NoReq EXCEPT !.type = "order", !.clOrdId = c, !.symbol = "AAPL", !.side = sd,
                   !.quantity = q, !.price = p, !.orderType = "2"] :
        c \in ClOrdIds, sd \in UiSides, q \in UiQtys, p \in UiLimitPrices}
    \cup
    {[NoReq EXCEPT !.type = "order", !.clOrdId = c, !.symbol = "AAPL", !.side = sd,
                   !.quantity = q, !.price = 0, !.orderType = "1"] :
        c \in ClOrdIds, sd \in UiSides, q \in UiQtys}

CancelRequests ==
    {[NoReq EXCEPT !.type = "cancel", !.origClOrdId = c] : c \in ClOrdIds}

AmendRequests ==
    {[NoReq EXCEPT !.type = "amend", !.origClOrdId = o, !.clOrdId = c,
                   !.newQuantity = q, !.newPrice = p] :
        o \in ClOrdIds, c \in ClOrdIds, q \in AmendQtys, p \in AmendPrices}

\* Market orders are priced at the current mark, markPx.
orderPrice(markPx, req) == IF req.orderType = "1" THEN markPx ELSE req.price

\* The validation chain of the order handler: the error message, "" when accepted.
orderValidation(s, markPx, req) ==
    IF req.symbol = "" THEN "Symbol is required"
    ELSE IF req.side # "1" /\ req.side # "2" THEN "Invalid side (must be 1=Buy or 2=Sell)"
    ELSE IF req.quantity <= 0 THEN "Quantity must be positive"
    ELSE IF req.orderType # "1" /\ req.price <= 0
        THEN "Price must be positive for Limit orders"
    ELSE IF req.quantity > MAX_ORDER_QTY THEN "Order quantity exceeds limit (10000)"
    ELSE IF req.quantity * orderPrice(markPx, req) > MAX_NOTIONAL
        THEN "Notional exceeds limit ($1000000)"
    ELSE IF exists(s, req.clOrdId) THEN "Duplicate ClOrdID"
    ELSE ""

\* Variant of the handler entry that records a refused order in the store as
\* REJECTED, the way the FIX reject path does; C10 must tell it from
\* orderHandlerEntry.
orderHandlerEntryRecording(s, markPx, req) ==
    LET msg == orderValidation(s, markPx, req)
        rec == [OrderRecord EXCEPT !.clOrdId = req.clOrdId, !.symbol = req.symbol,
                                   !.side = req.side, !.price = orderPrice(markPx, req),
                                   !.quantity = req.quantity]
    IN  [msg |-> msg,
         store |-> IF msg # ""
                   THEN upsert(s, [rec EXCEPT !.status = "REJECTED", !.rejectReason = msg])
                   ELSE s,
         rec |-> [rec EXCEPT !.leavesQty = req.quantity, !.status = "NEW"]]

\* The handler up to the point where it returns false or has built the record:
\* the error, the store it leaves, and the record.
orderHandlerEntry(s, markPx, req) ==
    [msg |-> orderValidation(s, markPx, req),
     store |-> s,
     rec |-> [OrderRecord EXCEPT !.clOrdId = req.clOrdId, !.symbol = req.symbol,
                                 !.side = req.side, !.price = orderPrice(markPx, req),
                                 !.quantity = req.quantity, !.leavesQty = req.quantity,
                                 !.cumQty = 0, !.avgPx = Px(0), !.status = "NEW"]]

UiOrderCheck ==
    /\ uiPc = "idle"
    /\ uiCount < MaxUiReqs
    /\ \E req \in OrderRequests, markPx \in Ticks :
         LET h == orderHandlerEntry(store, markPx, req) IN
         /\ uiCount' = uiCount + 1
         /\ store' = h.store
         /\ IF h.msg # ""
            THEN /\ Emit("none", NoReport, [ok |-> FALSE, msg |-> h.msg])
                 /\ UNCHANGED <<uiPc, uiReq, uiRec>>
            ELSE /\ Emit("none", NoReport, NoResult)
                 /\ uiPc' = "ordUpsert"
                 /\ uiReq' = req
                 /\ uiRec' = h.rec
    /\ UNCHANGED <<fixVars, fillVars, fills, admitted>>
    /\ UNCHANGED otherVars

\* store.upsert(record) and the ORDER_NEW audit record; a limit order is then
\* published and the handler returns.
UiOrderUpsert ==
    /\ uiPc = "ordUpsert"
    /\ store' = upsert(store, uiRec)
    /\ fills' = [fills EXCEPT ![uiRec.clOrdId] = NoFills]
    /\ admitted' = [admitted EXCEPT ![uiRec.clOrdId] = @ + 1]
    /\ IF uiReq.orderType = "1"
       THEN /\ uiPc' = "ordFill"
            /\ EmitAudit("none", NoReport, NoResult, {<<"ORDER_NEW", uiReq.clOrdId>>})
            /\ UNCHANGED <<uiReq, uiRec>>
       ELSE /\ uiPc' = "idle"
            /\ EmitAudit("ui", NoReport, Ok, {<<"ORDER_NEW", uiReq.clOrdId>>})
            /\ uiReq' = NoReq
            /\ uiRec' = OrderRecord
    /\ UNCHANGED <<fixVars, fillVars, uiCount>>
    /\ UNCHANGED otherVars

\* A market order is filled at the next tick and the fill is audited.
UiOrderFill ==
    /\ uiPc = "ordFill"
    /\ \E fillPrice \in Ticks :
         /\ store' = updateStatus(store, uiReq.clOrdId, "FILLED", 0, uiReq.quantity,
                                  Px(fillPrice))
         /\ fills' = recordFill(fills, store, uiReq.clOrdId, uiReq.quantity, fillPrice,
                              TRUE)
    /\ EmitAudit("ui", NoReport, Ok, {<<"ORDER_FILLED", uiReq.clOrdId>>})
    /\ uiPc' = "idle"
    /\ uiReq' = NoReq
    /\ uiRec' = OrderRecord
    /\ UNCHANGED <<fixVars, fillVars, uiCount, admitted>>
    /\ UNCHANGED otherVars

\* ----------------------------------------------- HTTP: cancel handler
cancelHandlerEntry(s, req) ==
    LET record == get(s, req.origClOrdId) IN
    [msg |-> IF ~exists(s, req.origClOrdId) THEN "Unknown order"
             ELSE IF record.status = "FILLED" THEN "Cannot cancel filled order"
             ELSE IF record.status = "CANCELED" THEN "Order already canceled"
             ELSE IF record.status = "REJECTED" THEN "Cannot cancel rejected order"
             ELSE "",
     store |-> s]

UiCancelCheck ==
    /\ uiPc = "idle"
    /\ uiCount < MaxUiReqs
    /\ \E req \in CancelRequests :
         LET h == cancelHandlerEntry(store, req) IN
         /\ uiCount' = uiCount + 1
         /\ store' = h.store
         /\ IF h.msg # ""
            THEN /\ Emit("none", NoReport, [ok |-> FALSE, msg |-> h.msg])
                 /\ UNCHANGED <<uiPc, uiReq>>
            ELSE /\ Emit("none", NoReport, NoResult)
                 /\ uiPc' = "cxlWrite"
                 /\ uiReq' = req
    /\ UNCHANGED <<fixVars, fillVars, uiRec, fills, admitted>>
    /\ UNCHANGED otherVars

UiCancelWrite ==
    /\ uiPc = "cxlWrite"
    /\ store' = updateStatus(store, uiReq.origClOrdId, "CANCELED", 0, 0, Px(0))
    /\ EmitAudit("ui", NoReport, Ok, {<<"ORDER_CANCELED", uiReq.origClOrdId>>})
    /\ uiPc' = "idle"
    /\ uiReq' = NoReq
    /\ UNCHANGED <<fixVars, fillVars, uiRec, uiCount, fills, admitted>>
    /\ UNCHANGED otherVars

\* ------------------------------------------------ HTTP: amend handler
\* The handler up to the point where it returns false or has amended its copy.
amendHandlerEntry(s, req) ==
    LET record == get(s, req.origClOrdId)
        qtyChange == req.newQuantity > 0 /\ req.newQuantity # record.quantity
        withQty == IF qtyChange
                   THEN [record EXCEPT !.quantity = req.newQuantity,
                                       !.leavesQty = req.newQuantity - record.cumQty]
                   ELSE record
        pxChange == req.newPrice > 0 /\ req.newPrice # record.price
        withPx == IF pxChange THEN [withQty EXCEPT !.price = req.newPrice] ELSE withQty
    IN
    [msg |-> IF ~exists(s, req.origClOrdId) THEN "Unknown order"
             ELSE IF record.status = "FILLED" THEN "Cannot amend filled order"
             ELSE IF record.status = "CANCELED" THEN "Cannot amend canceled order"
             ELSE IF record.status = "REJECTED" THEN "Cannot amend rejected order"
             ELSE IF qtyChange /\ req.newQuantity > record.quantity
                 THEN "Cannot increase order quantity (only reduce)"
             ELSE IF qtyChange /\ req.newQuantity <= record.cumQty
                 THEN "New quantity must be greater than already filled quantity"
             ELSE IF pxChange /\ withQty.leavesQty * req.newPrice > MAX_NOTIONAL
                 THEN "Amended notional exceeds limit"
             ELSE IF ~(qtyChange \/ pxChange) THEN "No changes specified"
             ELSE "",
     store |-> s,
     rec |-> [withPx EXCEPT !.clOrdId = req.clOrdId]]

UiAmendCheck ==
    /\ uiPc = "idle"
    /\ uiCount < MaxUiReqs
    /\ \E req \in AmendRequests :
         LET h == amendHandlerEntry(store, req) IN
         /\ uiCount' = uiCount + 1
         /\ store' = h.store
         /\ IF h.msg # ""
            THEN /\ Emit("none", NoReport, [ok |-> FALSE, msg |-> h.msg])
                 /\ UNCHANGED <<uiPc, uiReq, uiRec>>
            ELSE /\ Emit("none", NoReport, NoResult)
                 /\ uiPc' = "amdUpsert"
                 /\ uiReq' = req
                 /\ uiRec' = h.rec
    /\ UNCHANGED <<fixVars, fillVars, fills, admitted>>
    /\ UNCHANGED otherVars

\* store.upsert(record) under the new clOrdId.
UiAmendUpsert ==
    /\ uiPc = "amdUpsert"
    /\ store' = upsert(store, uiRec)
    /\ fills' = [fills EXCEPT ![uiReq.clOrdId] = fills[uiReq.origClOrdId]]
    /\ Emit("none", NoReport, NoResult)
    /\ uiPc' = "amdRemove"
    /\ UNCHANGED <<fixVars, fillVars, uiReq, uiRec, uiCount, admitted>>
    /\ UNCHANGED otherVars

\* store.remove(origClOrdId) when the key changed, then the ORDER_REPLACED
\* audit record and the snapshot.
UiAmendRemove ==
    /\ uiPc = "amdRemove"
    /\ IF uiReq.clOrdId # uiReq.origClOrdId
       THEN /\ store' = remove(store, uiReq.origClOrdId)
            /\ fills' = [fills EXCEPT ![uiReq.origClOrdId] = NoFills]
       ELSE UNCHANGED <<store, fills>>
    /\ EmitAudit("ui", NoReport, Ok, {<<"ORDER_REPLACED", uiReq.origClOrdId>>})
    /\ uiPc' = "idle"
    /\ uiReq' = NoReq
    /\ uiRec' = OrderRecord
    /\ UNCHANGED <<fixVars, fillVars, uiCount, admitted>>
    /\ UNCHANGED otherVars

\* ------------------------------------------------------------- Fill Loop
\* Top of an iteration: the copy of the open orders.
FillLoopWake ==
    /\ fillPc = "sleep"
    /\ tickCount < MaxTicks
    /\ openOrders' = getOpenOrders(store)
    /\ anyFilled' = FALSE
    /\ tickCount' = tickCount + 1
    /\ fillPc' = "fill"
    /\ Emit("none", NoReport, NoResult)
    /\ UNCHANGED <<store, fixVars, uiVars, fills, admitted>>
    /\ UNCHANGED otherVars

\* The new average price of a fill of fillQty at fillPx.
vwap(avgPx, cumQty, fillPx, fillQty) ==
    Frac(avgPx[1] * cumQty + fillPx * fillQty * avgPx[2], avgPx[2] * (cumQty + fillQty))

\* The store after the fill `r` of the copied order `order`.
applyFill(s, order, r) ==
    LET newCumQty == order.cumQty + r.fillQty
        newLeavesQty == order.quantity - newCumQty
        newAvgPx == vwap(order.avgPx, order.cumQty, r.fillPx, r.fillQty)
        newStatus == IF newLeavesQty <= 0 THEN "FILLED" ELSE "PARTIAL"
    IN  updateStatus(s, order.clOrdId, newStatus, newLeavesQty, newCumQty, newAvgPx)

\* One pass of the for loop: attemptFill on a copy, then updateStatus.
FillLoopOrder ==
    /\ fillPc = "fill"
    /\ \E order \in openOrders :
         /\ openOrders' = openOrders \ {order}
         /\ \E px \in Ticks, ratio \in FillRatios :
              LET r == attemptFill(order.side, order.price, order.leavesQty, px, ratio) IN
              IF r.fillQty > 0
              THEN /\ store' = applyFill(store, order, r)
                   /\ anyFilled' = TRUE
                   /\ fills' = recordFill(fills, store, order.clOrdId, r.fillQty, r.fillPx,
                                        FALSE)
              ELSE UNCHANGED <<store, anyFilled, fills>>
    /\ Emit("none", NoReport, NoResult)
    /\ UNCHANGED <<fixVars, uiVars, fillPc, tickCount, admitted>>
    /\ UNCHANGED otherVars

\* End of the iteration: publish when something was filled, then sleep.
FillLoopPublish ==
    /\ fillPc = "fill"
    /\ openOrders = {}
    /\ Emit(IF anyFilled THEN "fill" ELSE "none", NoReport, NoResult)
    /\ fillPc' = "sleep"
    /\ UNCHANGED <<store, fixVars, uiVars, openOrders, anyFilled, tickCount, fills, admitted>>
    /\ UNCHANGED otherVars

\* ------------------------------------------------------------------ Next
Next ==
    \/ FixNewOrderCheck(NewOrderSingles)
    \/ FixNewOrderReject
    \/ FixNewOrderUpsert
    \/ FixNewOrderFill
    \/ FixCancelCheck
    \/ FixCancelWrite
    \/ UiOrderCheck
    \/ UiOrderUpsert
    \/ UiOrderFill
    \/ UiCancelCheck
    \/ UiCancelWrite
    \/ UiAmendCheck
    \/ UiAmendUpsert
    \/ UiAmendRemove
    \/ FillLoopWake
    \/ FillLoopOrder
    \/ FillLoopPublish

Spec == Init /\ [][Next]_vars

\* The FIX session alone: every combination of NewOrderSingle fields.
NextFix ==
    \/ FixNewOrderCheck(AllNewOrderSingles)
    \/ FixNewOrderReject
    \/ FixNewOrderUpsert
    \/ FixNewOrderFill
    \/ FixCancelCheck
    \/ FixCancelWrite

SpecFix == Init /\ [][NextFix]_vars

\* The two admission paths side by side: every NewOrderSingle on the FIX
\* thread, every order request on the HTTP thread.
NextAdmit ==
    \/ FixNewOrderCheck(AllNewOrderSingles)
    \/ FixNewOrderReject
    \/ FixNewOrderUpsert
    \/ FixNewOrderFill
    \/ UiOrderCheck
    \/ UiOrderUpsert
    \/ UiOrderFill

SpecAdmit == Init /\ [][NextAdmit]_vars

\* ============================================================ Event Bus
\* Variant that puts the event at the front of the queue; C11 must tell it
\* from pushEvent.
pushEventFront(q, event) == <<event>> \o q

\* sub->queue.push_back(event)
pushEvent(q, event) == Append(q, event)

\* sse_frame: the frame written to the sink for a payload.
sse_frame(data) == [event |-> "update", data |-> data]

\* GET /events: broker_.subscribe() registers a new subscriber.
BusSubscribe ==
    /\ \E s \in Subs :
         /\ subscribers[s] = "none"
         /\ subscribers' = [subscribers EXCEPT ![s] = "alive"]
         /\ joinedAt' = [joinedAt EXCEPT ![s] = Len(published)]
    /\ UNCHANGED <<queue, sink, pinged, published, besidesBus>>

\* SseBroker::publish: under the broker's lock the event is appended to the
\* queue of every subscriber whose weak_ptr is alive; expired ones are erased.
\* Nothing in it depends on the length of a queue.
BusPublish ==
    /\ Len(published) < MaxPublishes
    /\ \E event \in Payloads :
         /\ queue' = [s \in Subs |->
                         IF subscribers[s] = "alive" THEN pushEvent(queue[s], event)
                         ELSE queue[s]]
         /\ published' = Append(published, event)
    /\ UNCHANGED <<subscribers, sink, pinged, joinedAt, besidesBus>>

\* The content provider with a non-empty queue: pop the front, write its frame.
\* A sink that is no longer writable ends the stream; the provider and with
\* it the Subscriber and its queue are destroyed.
BusDeliver(s) ==
    /\ \E writable \in BOOLEAN :
         /\ subscribers[s] = "alive"
         /\ queue[s] # << >>
         /\ IF writable
            THEN /\ queue' = [queue EXCEPT ![s] = Tail(@)]
                 /\ sink' = [sink EXCEPT ![s] = Append(@, sse_frame(Head(queue[s])))]
                 /\ pinged' = [pinged EXCEPT ![s] = FALSE]
                 /\ UNCHANGED subscribers
            ELSE /\ queue' = [queue EXCEPT ![s] = << >>]
                 /\ subscribers' = [subscribers EXCEPT ![s] = "gone"]
                 /\ UNCHANGED <<sink, pinged>>
    /\ UNCHANGED <<published, joinedAt, besidesBus>>

\* The content provider with an empty queue after the 5 s wait: a ping on a
\* writable sink, the end of the stream on a closed one.
BusPing(s) ==
    /\ \E writable \in BOOLEAN :
         /\ subscribers[s] = "alive"
         /\ queue[s] = << >>
         /\ IF writable
            THEN /\ pinged' = [pinged EXCEPT ![s] = TRUE]
                 /\ UNCHANGED subscribers
            ELSE /\ subscribers' = [subscribers EXCEPT ![s] = "gone"]
                 /\ UNCHANGED pinged
    /\ UNCHANGED <<queue, sink, published, joinedAt, besidesBus>>

NextBus ==
    \/ BusSubscribe
    \/ BusPublish
    \/ \E s \in Subs : BusDeliver(s)
    \/ \E s \in Subs : BusPing(s)

\* httplib calls the content provider again for as long as the stream is open,
\* and wait_for returns on notify_one or after five seconds.
SpecBus == Init /\ [][NextBus]_vars /\ \A s \in Subs : WF_vars(BusDeliver(s))

\* ------------------------------------------------------------ Persistence
\* OrderStore::snapshotJson: a json array of one object per indexed record.
snapshotJson(s) ==
    LET idx == SelectSeq(s.orderIndex, LAMBDA id : id \in DOMAIN s.orders)
    IN  JsonArray([i \in 1..Len(idx) |->
                      JsonObject([f \in PersistedFields |-> s.orders[idx[i]][f]])])

\* nlohmann::json::operator[](key) on a non-const value: a null becomes an
\* object, an object yields (or inserts) the member, any other type throws
\* type_error 305.
at(j, key) ==
    IF j.type = "null" THEN [threw |-> FALSE, value |-> JsonNull]
    ELSE IF j.type = "object"
    THEN [threw |-> FALSE,
          value |-> IF key \in DOMAIN j.members THEN j.members[key] ELSE JsonNull]
    ELSE [threw |-> TRUE, value |-> JsonNull]

\* nlohmann::json::value(key, default) on an object.
value(j, key, default) ==
    IF key \in DOMAIN j.members THEN j.members[key] ELSE default

\* doSave(store), given whether filePath_.tmp can be opened: the files and the
\* counter it leaves, and whether it wrote its document.  An exception thrown
\* inside the try block is caught and logged.
doSave(s, can, tmp, count, openOk) ==
    LET snapshot == snapshotJson(s)
        orders == at(snapshot, "orders")
        failed == [canonical |-> can, tmpFile |-> tmp, saveCount_ |-> count,
                   wrote |-> FALSE]
    IN  IF orders.threw THEN failed
        ELSE IF ~openOk THEN failed
        ELSE [canonical |-> FileOf(JsonObject([version |-> 1, savedAt |-> 0,
                                               orders |-> orders.value])),
              tmpFile |-> NoFile,
              saveCount_ |-> count + 1,
              wrote |-> TRUE]

\* The OrderRecord load builds from one entry of the orders array.
fromJson(o) ==
    [clOrdId |-> value(o, "clOrdId", ""), orderId |-> value(o, "orderId", ""),
     symbol |-> value(o, "symbol", ""), side |-> value(o, "side", "1"),
     price |-> value(o, "price", 0), quantity |-> value(o, "quantity", 0),
     leavesQty |-> value(o, "leavesQty", 0), cumQty |-> value(o, "cumQty", 0),
     avgPx |-> value(o, "avgPx", <<0, 1>>), status |-> value(o, "status", "NEW"),
     rejectReason |-> value(o, "rejectReason", ""),
     transactTime |-> value(o, "transactTime", ""),
     submitTimeUs |-> value(o, "submitTimeUs", 0),
     ackTimeUs |-> value(o, "ackTimeUs", 0),
     fillTimeUs |-> value(o, "fillTimeUs", 0),
     latencyUs |-> value(o, "latencyUs", 0)]

\* The loop of load over the orders array.  value() on an entry that is not
\* an object throws type_error 306, which the handler around the whole loop
\* catches: load returns 0, and the records the loader was handed stay.
RECURSIVE loadOrders(_, _, _, _)
loadOrders(items, i, s, count) ==
    IF i > Len(items) THEN [count |-> count, store |-> s]
    ELSE IF items[i].type # "object" THEN [count |-> 0, store |-> s]
    ELSE LET record == fromJson(items[i])
         IN  IF record.clOrdId # ""
             THEN loadOrders(items, i + 1, upsert(s, record), count + 1)
             ELSE loadOrders(items, i + 1, s, count)

\* load(loader) with the loader of gateway_main (store.upsert) on a fresh
\* store: the count it returns and the store it leaves.
load(can) ==
    LET nothing == [count |-> 0, store |-> EmptyStore]
    IN  IF ~can.present THEN nothing
        ELSE IF ~can.wellFormed THEN nothing
        ELSE IF ~(can.json.type = "object" /\ "orders" \in DOMAIN can.json.members)
        THEN nothing
        ELSE IF can.json.members["orders"].type # "array" THEN nothing
        ELSE loadOrders(can.json.members["orders"].items, 1, EmptyStore, 0)

\* The outcome of a doSave call by `who` on the current store.
Saved(who, r) ==
    /\ canonical' = r.canonical
    /\ tmpFile' = r.tmpFile
    /\ saveCount_' = r.saveCount_
    /\ saveReturned' = who
    /\ lastSaved' = [done |-> TRUE, store |-> pStore]

\* Another thread of the gateway writes a record to the store.
PersistUpsert ==
    /\ storeOps < MaxStoreOps
    /\ \E rec \in FullRecords : pStore' = upsert(pStore, rec)
    /\ storeOps' = storeOps + 1
    /\ saveReturned' = "none"
    /\ UNCHANGED <<canonical, tmpFile, running_, saveCount_, workerPc, stopPc,
                   lastSaved, finalSaved, loaded, besidesPersistence>>

\* A file is in place before the manager is first used.
InstallFile ==
    /\ canonical = NoFile
    /\ workerPc = "none" /\ stopPc = "idle"
    /\ ~lastSaved.done /\ ~loaded.done
    /\ \E f \in PreexistingFiles \ {NoFile} : canonical' = f
    /\ saveReturned' = "none"
    /\ UNCHANGED <<pStore, storeOps, tmpFile, running_, saveCount_, workerPc,
                   stopPc, lastSaved, finalSaved, loaded, besidesPersistence>>

PersistLoad ==
    /\ LET r == load(canonical)
       IN  loaded' = [done |-> TRUE, count |-> r.count, store |-> r.store,
                      after |-> lastSaved.done, saved |-> lastSaved.store]
    /\ saveReturned' = "none"
    /\ UNCHANGED <<pStore, storeOps, canonical, tmpFile, running_, saveCount_,
                   workerPc, stopPc, lastSaved, finalSaved, besidesPersistence>>

saveNow ==
    /\ \E openOk \in BOOLEAN :
          Saved("saveNow", doSave(pStore, canonical, tmpFile, saveCount_, openOk))
    /\ UNCHANGED <<pStore, storeOps, running_, workerPc, stopPc, finalSaved,
                   loaded, besidesPersistence>>

start ==
    /\ ~running_
    /\ workerPc = "none" /\ stopPc = "idle"
    /\ running_' = TRUE
    /\ workerPc' = "loop"
    /\ saveReturned' = "none"
    /\ UNCHANGED <<pStore, storeOps, canonical, tmpFile, saveCount_, stopPc,
                   lastSaved, finalSaved, loaded, besidesPersistence>>

\* backgroundSave: the sleep loop ends, the interval over or running_ cleared.
backgroundWake ==
    /\ workerPc = "sleep"
    /\ workerPc' = "check"
    /\ saveReturned' = "none"
    /\ UNCHANGED <<pStore, storeOps, canonical, tmpFile, running_, saveCount_,
                   stopPc, lastSaved, finalSaved, loaded, besidesPersistence>>

\* backgroundSave: if (running_) doSave(store).
backgroundCheck ==
    /\ workerPc = "check"
    /\ IF running_
       THEN \E openOk \in BOOLEAN :
               Saved("periodic", doSave(pStore, canonical, tmpFile, saveCount_, openOk))
       ELSE /\ saveReturned' = "none"
            /\ UNCHANGED <<canonical, tmpFile, saveCount_, lastSaved>>
    /\ workerPc' = "loop"
    /\ UNCHANGED <<pStore, storeOps, running_, stopPc, finalSaved, loaded,
                   besidesPersistence>>

\* backgroundSave: while (running_).
backgroundLoop ==
    /\ workerPc = "loop"
    /\ workerPc' = IF running_ THEN "sleep" ELSE "final"
    /\ saveReturned' = "none"
    /\ UNCHANGED <<pStore, storeOps, canonical, tmpFile, running_, saveCount_,
                   stopPc, lastSaved, finalSaved, loaded, besidesPersistence>>

\* backgroundSave: the final doSave(store) on shutdown, then the thread ends.
backgroundFinal ==
    /\ workerPc = "final"
    /\ \E openOk \in BOOLEAN :
          LET r == doSave(pStore, canonical, tmpFile, saveCount_, openOk)
          IN  /\ Saved("final", r)
              /\ finalSaved' = r.wrote
    /\ workerPc' = "done"
    /\ UNCHANGED <<pStore, storeOps, running_, stopPc, loaded, besidesPersistence>>

\* stop(): running_.exchange(false) on a running manager.
stop ==
    /\ running_
    /\ stopPc = "idle"
    /\ running_' = FALSE
    /\ stopPc' = "join"
    /\ saveReturned' = "none"
    /\ UNCHANGED <<pStore, storeOps, canonical, tmpFile, saveCount_, workerPc,
                   lastSaved, finalSaved, loaded, besidesPersistence>>

\* stop(): saveThread_.join() returns once the worker has ended.
stopJoin ==
    /\ stopPc = "join"
    /\ workerPc = "done"
    /\ stopPc' = "returned"
    /\ saveReturned' = "none"
    /\ UNCHANGED <<pStore, storeOps, canonical, tmpFile, running_, saveCount_,
                   workerPc, lastSaved, finalSaved, loaded, besidesPersistence>>

backgroundSave == backgroundWake \/ backgroundCheck \/ backgroundLoop \/ backgroundFinal

NextPersist ==
    \/ PersistUpsert
    \/ InstallFile
    \/ PersistLoad
    \/ saveNow
    \/ start
    \/ backgroundWake
    \/ backgroundCheck
    \/ backgroundLoop
    \/ backgroundFinal
    \/ stop
    \/ stopJoin

\* The worker is a thread of its own and join returns when it has ended.
SpecPersist ==
    Init /\ [][NextPersist]_vars /\ WF_vars(backgroundSave) /\ WF_vars(stopJoin)

\* ------------------------------------------------------- Market Simulator
\* rng_(seed) in the constructor: the engine state of a simulator just built,
\* whichever instance it is.
seedRngPerInstance(seed, instance) == (seed + instance) % RngModulus

seedRng(seed, instance) == seed % RngModulus

\* One step of the engine.
nextRng(x) == (5 * x + 3) % RngModulus

\* dist_ (normal, mean 0, deviation 1), in tenths: -2.0 .. 2.0.
normalTenths(x) == ((x % 5) - 2) * 10
\* fillRatio_ (uniform 0.2 .. 1.0), in tenths.
fillRatioTenths(x) == 2 + (x % 9)
\* qtyDist_ (uniform 50 .. 500).
qtyDist(x) == 50 + 50 * (x % 10)

getRealisticPrice(symbol, defaultPrice) ==
    IF symbol = "AAPL" THEN 18500 ELSE defaultPrice

MarketSim(seed, startPrice, step, instance) ==
    [built |-> TRUE, rng_ |-> seedRng(seed, instance), state_ |-> << >>,
     startPrice_ |-> startPrice, step_ |-> step]

\* state_[symbol] = State{last}.
setLast(sim, symbol, last) ==
    [sim EXCEPT !.state_ = [s \in DOMAIN sim.state_ \cup {symbol} |->
                               IF s = symbol THEN last ELSE sim.state_[s]]]

mark(sim, symbol) ==
    IF symbol \notin DOMAIN sim.state_
    THEN LET price == getRealisticPrice(symbol, sim.startPrice_)
         IN  [sim |-> setLast(sim, symbol, price), value |-> price]
    ELSE [sim |-> sim, value |-> sim.state_[symbol]]

\* move = dist_(rng_) * step_ * (last / 100), the quotient taken downwards.
nextTickUnsafe(sim, symbol) ==
    LET last0 == IF symbol \in DOMAIN sim.state_ THEN sim.state_[symbol] ELSE 0
        last1 == IF last0 = 0 THEN getRealisticPrice(symbol, sim.startPrice_) ELSE last0
        x == nextRng(sim.rng_)
        move == (normalTenths(x) * sim.step_ * last1) \div 100000
        last2 == IF last1 + move < 1 THEN 1 ELSE last1 + move
    IN  [sim |-> [setLast(sim, symbol, last2) EXCEPT !.rng_ = x], value |-> last2]

nextTick(sim, symbol) == nextTickUnsafe(sim, symbol)

shouldFillOn(sim, symbol, side, limitPx) ==
    LET t == nextTickUnsafe(sim, symbol)
    IN  [sim |-> t.sim, value |-> shouldFill(side, limitPx, t.value)]

\* The fill ratio is drawn only for a fillable order of more than 100 shares.
attemptFillOn(sim, symbol, side, limitPx, leavesQty) ==
    IF leavesQty <= 0
    THEN [sim |-> sim, value |-> attemptFill(side, limitPx, leavesQty, 0, 0)]
    ELSE LET t == nextTickUnsafe(sim, symbol)
             drawn == shouldFill(side, limitPx, t.value) /\ leavesQty > SmallOrderQty
             x == nextRng(t.sim.rng_)
         IN  [sim |-> IF drawn THEN [t.sim EXCEPT !.rng_ = x] ELSE t.sim,
              value |-> attemptFill(side, limitPx, leavesQty, t.value,
                                    fillRatioTenths(x))]

\* std::round(x * 100.0) / 100.0 of a price in millionths of a dollar: cents,
\* halves rounded away from zero.
roundCents(micro) ==
    IF micro >= 0 THEN (micro + 5000) \div 10000 ELSE -((5000 - micro) \div 10000)

\* The engine state after n draws.
RECURSIVE drawn(_, _)
drawn(x, n) == IF n = 0 THEN x ELSE drawn(nextRng(x), n - 1)

\* getOrderBook: spreadPct = 0.001 + (dist_ + 1.0) * 0.002, so the half
\* spread of a mid of m cents is m * (15 + tenths) millionths of a dollar;
\* level i lies i * step_ * 2 away from the start; one quantity is drawn per
\* level, bids first.
getOrderBook(sim, symbol, depth) ==
    LET mid0 == IF symbol \in DOMAIN sim.state_ THEN sim.state_[symbol]
                ELSE sim.startPrice_
        mid == IF mid0 <= 1 THEN sim.startPrice_ ELSE mid0
        x == nextRng(sim.rng_)
        halfSpread == mid * (15 + normalTenths(x))
        bidStart == mid * 10000 - halfSpread
        askStart == mid * 10000 + halfSpread
        levels == IF depth > 0 THEN 1..depth ELSE {}
        bidLevels == [i \in levels |->
                         [price |-> roundCents(bidStart - (i - 1) * sim.step_ * 20000),
                          quantity |-> qtyDist(drawn(x, i))]]
        askLevels == [i \in levels |->
                         [price |-> roundCents(askStart + (i - 1) * sim.step_ * 20000),
                          quantity |-> qtyDist(drawn(x, Cardinality(levels) + i))]]
    IN  [sim |-> [sim EXCEPT !.rng_ = drawn(x, 2 * Cardinality(levels))],
         value |-> [symbol |-> symbol,
                    bids |-> SelectSeq(bidLevels, LAMBDA l : l.price > 0),
                    asks |-> askLevels,
                    lastPrice |-> mid,
                    spread |-> 2 * halfSpread]]

\* The calls of the public interface, over small argument sets.
SimCalls ==
    [op : {"mark", "nextTick"}, symbol : SimSymbols, side : {"0"}, limitPx : {0},
     leavesQty : {0}, depth : {0}]
    \cup [op : {"shouldFill"}, symbol : {"ZZZ"}, side : {"1", "2"},
          limitPx : {10000}, leavesQty : {0}, depth : {0}]
    \cup [op : {"attemptFill"}, symbol : {"AAPL"}, side : {"1"},
          limitPx : {20000}, leavesQty : {0, 50, 500}, depth : {0}]
    \cup [op : {"getOrderBook"}, symbol : SimSymbols, side : {"0"}, limitPx : {0},
          leavesQty : {0}, depth : Depths]

\* What call c does to simulator sim and returns.
perform(sim, c) ==
    CASE c.op = "mark" -> mark(sim, c.symbol)
      [] c.op = "nextTick" -> nextTick(sim, c.symbol)
      [] c.op = "shouldFill" -> shouldFillOn(sim, c.symbol, c.side, c.limitPx)
      [] c.op = "attemptFill" ->
             attemptFillOn(sim, c.symbol, c.side, c.limitPx, c.leavesQty)
      [] c.op = "getOrderBook" -> getOrderBook(sim, c.symbol, c.depth)

\* Both simulators are constructed with the same arguments.
SimConstruct ==
    /\ \A i \in SimIds : ~sims[i].built
    /\ \E seed \in Seeds, startPrice \in StartPrices, step \in Steps :
          sims' = [i \in SimIds |-> MarketSim(seed, startPrice, step, i)]
    /\ UNCHANGED <<calls, returns, besidesSim>>

\* The driver decides on the next call of the common sequence.
SimIssue ==
    /\ \A i \in SimIds : sims[i].built
    /\ Len(calls) < MaxCalls
    /\ \E c \in SimCalls : calls' = Append(calls, c)
    /\ UNCHANGED <<sims, returns, besidesSim>>

\* Simulator i executes its next call.
SimCall(i) ==
    /\ sims[i].built
    /\ Len(returns[i]) < Len(calls)
    /\ LET c == calls[Len(returns[i]) + 1]
           r == perform(sims[i], c)
       IN  /\ sims' = [sims EXCEPT ![i] = r.sim]
           /\ returns' = [returns EXCEPT ![i] = Append(@, [op |-> c.op, value |-> r.value])]
    /\ UNCHANGED <<calls, besidesSim>>

NextSim ==
    \/ SimConstruct
    \/ SimIssue
    \/ \E i \in SimIds : SimCall(i)

SpecSim == Init /\ [][NextSim]_vars

\* attemptFill alone, over every side, over orders with nothing left, small
\* and large, at a limit the ticks of one start price cross and those of the
\* other do not.
FillCalls ==
    [op : {"attemptFill"}, symbol : {"ZZZ"}, side : {"1", "2", "3"},
     limitPx : {10000}, leavesQty : {-5, 0, 100, 101, 500}, depth : {0}]

FillIssue ==
    /\ \A i \in SimIds : sims[i].built
    /\ Len(calls) < MaxCalls
    /\ \E c \in FillCalls : calls' = Append(calls, c)
    /\ UNCHANGED <<sims, returns, besidesSim>>

NextFill ==
    \/ SimConstruct
    \/ FillIssue
    \/ SimCall(1)

SpecFill == Init /\ [][NextFill]_vars

\* ---------------------------------------------------------- OrderStore API
\* OrderStore::getStats: the counters and the latency aggregates.
RECURSIVE sortedLatencies(_, _)
sortedLatencies(s, ids) ==
    IF ids = {} THEN << >>
    ELSE LET m == CHOOSE c \in ids :
                     \A d \in ids : s.orders[c].latencyUs <= s.orders[d].latencyUs
         IN  <<s.orders[m].latencyUs>> \o sortedLatencies(s, ids \ {m})

RECURSIVE sum(_, _)
sum(q, i) == IF i > Len(q) THEN 0 ELSE q[i] + sum(q, i + 1)

\* Variant of getStats whose 99th percentile is the nearest-rank one, the
\* element at index ceil(0.99 n) - 1; C22 must tell it from getStats.
getStatsNearestRank(s) ==
    LET ids == DOMAIN s.orders
        latencies == sortedLatencies(s, {c \in ids : s.orders[c].latencyUs > 0})
        n == Len(latencies)
    IN  [totalOrders |-> Cardinality(ids),
         p99LatencyUs |-> IF n = 0 THEN 0 ELSE latencies[(n * 99 + 99) \div 100]]

getStats(s) ==
    LET ids == DOMAIN s.orders
        count(status) == Cardinality({c \in ids : s.orders[c].status = status})
        latencies == sortedLatencies(s, {c \in ids : s.orders[c].latencyUs > 0})
        n == Len(latencies)
        p99Idx == IF (n * 99) \div 100 >= n THEN n - 1 ELSE (n * 99) \div 100
    IN  [totalOrders |-> Cardinality(ids),
         newOrders |-> count("NEW"),
         partialOrders |-> count("PARTIAL"),
         filledOrders |-> count("FILLED"),
         rejectedOrders |-> count("REJECTED"),
         canceledOrders |-> count("CANCELED"),
         avgLatencyUs |-> IF n = 0 THEN 0 ELSE sum(latencies, 1) \div n,
         minLatencyUs |-> IF n = 0 THEN 0 ELSE latencies[1],
         maxLatencyUs |-> IF n = 0 THEN 0 ELSE latencies[n],
         p99LatencyUs |-> IF n = 0 THEN 0 ELSE latencies[p99Idx + 1]]

\* The calls a thread makes.
StoreCalls ==
    {[op |-> "upsert", id |-> rec.clOrdId, rec |-> rec] : rec \in FullRecords}
    \cup [op : {"updateStatus", "reject", "remove", "exists"}, id : ClOrdIds,
          rec : {OrderRecord}]
    \cup {[op |-> "getStats", id |-> "", rec |-> OrderRecord]}

\* The store a call leaves.
storeAfter(s, c) ==
    CASE c.op = "upsert" -> upsert(s, c.rec)
      [] c.op = "updateStatus" -> updateStatus(s, c.id, "FILLED", 0, 200, Px(185))
      [] c.op = "reject" -> reject(s, c.id, "Rejected by risk")
      [] c.op = "remove" -> remove(s, c.id)
      [] OTHER -> s

\* A thread decides on its next call.
StoreInvoke(th) ==
    /\ tPc[th] = NoCall
    /\ tDone + Cardinality({u \in StoreThreads : tPc[u] # NoCall}) < MaxStoreCalls
    /\ \E c \in StoreCalls : tPc' = [tPc EXCEPT ![th] = c]
    /\ UNCHANGED <<tStore, tDone, present, tLast, besidesStoreApi>>

\* The call of a thread runs: one critical section of the store.
StoreRun(th) ==
    /\ tPc[th] # NoCall
    /\ LET c == tPc[th]
       IN  /\ tStore' = storeAfter(tStore, c)
           /\ present' = CASE c.op = "upsert" -> present \cup {c.id}
                           [] c.op = "remove" -> present \ {c.id}
                           [] OTHER -> present
           /\ tLast' = [op |-> c.op, id |-> c.id, absent |-> c.id \notin present,
                        flag |-> IF c.op = "exists" THEN exists(tStore, c.id) ELSE FALSE,
                        count |-> IF c.op = "getStats"
                                  THEN getStats(tStore).totalOrders ELSE 0,
                        p99 |-> IF c.op = "getStats"
                                THEN getStats(tStore).p99LatencyUs ELSE 0]
    /\ tPc' = [tPc EXCEPT ![th] = NoCall]
    /\ tDone' = tDone + 1
    /\ UNCHANGED besidesStoreApi

\* Statistics over a growing store: order number k is stored with a latency
\* of k microseconds, or, among the first orders, with no latency measured
\* (0) or with a latency other orders share.
MixedLatencies == {0, 5}

StatsUpsert ==
    /\ Len(tStore.orderIndex) < MaxStatsOrders
    /\ \A th \in StoreThreads : tPc[th] = NoCall
    /\ tDone = 0
    /\ LET k == Len(tStore.orderIndex) + 1
       IN  /\ \E l \in {k} \cup (IF k <= MaxMixedOrders THEN MixedLatencies ELSE {}) :
                  tStore' = upsert(tStore, [FullRecord("A", "NEW", 200, 0)
                                               EXCEPT !.clOrdId = k, !.latencyUs = l])
           /\ present' = present \cup {k}
    /\ tLast' = NoReturn
    /\ UNCHANGED <<tPc, tDone, besidesStoreApi>>

StatsRead ==
    /\ tDone = 0
    /\ tStore # EmptyStore
    /\ \A c \in DOMAIN tStore.orders : c \in Nat
    /\ tLast' = [op |-> "getStats", id |-> "", absent |-> FALSE, flag |-> FALSE,
                 count |-> getStats(tStore).totalOrders,
                 p99 |-> getStats(tStore).p99LatencyUs]
    /\ UNCHANGED <<tStore, tPc, tDone, present, besidesStoreApi>>

NextStats == StatsUpsert \/ StatsRead

SpecStats == Init /\ [][NextStats]_vars

NextStoreApi ==
    \/ \E th \in StoreThreads : StoreInvoke(th)
    \/ \E th \in StoreThreads : StoreRun(th)

SpecStoreApi == Init /\ [][NextStoreApi]_vars

\* ---------------------------------------------------------- FIX identifiers
\* std::to_string of an unsigned number: its decimal digits.
RECURSIVE to_string(_)
to_string(n) == IF n < 10 THEN <<n>> ELSE to_string(n \div 10) \o <<n % 10>>

\* Variant of nextOrderId that returns the counter after the increment
\* (add_fetch for fetch_add); C23 must tell it from nextOrderId.
nextOrderIdAfterIncrement(counter) ==
    [id |-> <<"ORD">> \o to_string(counter + 1), counter |-> counter + 1]

\* FixApplication::nextOrderId and nextExecId: fetch_add returns the value
\* the counter held and leaves it one higher, in one atomic step.
nextOrderId(counter) ==
    [id |-> <<"ORD">> \o to_string(counter), counter |-> counter + 1]

nextExecId(counter) ==
    [id |-> <<"EXEC">> \o to_string(counter), counter |-> counter + 1]

\* The identifiers a handler draws, in order: an order that is rejected or
\* accepted draws an order and an execution identifier, a fill or a cancel an
\* execution identifier.
IdHandlers == {<<"order", "exec">>, <<"order", "exec", "exec">>, <<"exec">>}

IdHandlerStart(th) ==
    /\ idPc[th] = << >>
    /\ Len(orderIds) + Len(execIds) + 3 * MaxIdThreads <= MaxIdCalls
    /\ \E h \in IdHandlers : idPc' = [idPc EXCEPT ![th] = h]
    /\ UNCHANGED <<orderCounter_, execCounter_, orderIds, execIds, besidesIds>>

IdNextOrderId(th) ==
    /\ idPc[th] # << >>
    /\ Head(idPc[th]) = "order"
    /\ orderCounter_' = nextOrderId(orderCounter_).counter
    /\ orderIds' = Append(orderIds, nextOrderId(orderCounter_).id)
    /\ idPc' = [idPc EXCEPT ![th] = Tail(idPc[th])]
    /\ UNCHANGED <<execCounter_, execIds, besidesIds>>

IdNextExecId(th) ==
    /\ idPc[th] # << >>
    /\ Head(idPc[th]) = "exec"
    /\ execCounter_' = nextExecId(execCounter_).counter
    /\ execIds' = Append(execIds, nextExecId(execCounter_).id)
    /\ idPc' = [idPc EXCEPT ![th] = Tail(idPc[th])]
    /\ UNCHANGED <<orderCounter_, orderIds, besidesIds>>

NextIds ==
    \/ \E th \in IdThreads : IdHandlerStart(th)
    \/ \E th \in IdThreads : IdNextOrderId(th)
    \/ \E th \in IdThreads : IdNextExecId(th)

SpecIds == Init /\ [][NextIds]_vars

\* ------------------------------------------------------------------ locks
\* A step of a call: it takes a mutex (std::lock_guard constructed) or gives
\* it back (the guard's scope ends).  What a critical section does shows in
\* `event`: a mutation of the store, or a record written to the Audit Log.
NoEvent == <<"", "">>
acquire(mutex, event) == [op |-> "lock", mutex |-> mutex, event |-> event]
release(mutex) == [op |-> "unlock", mutex |-> mutex, event |-> NoEvent]
section(mutex, event) == <<acquire(mutex, event), release(mutex)>>

\* SseBroker::publish: the guard of the broker spans the loop, and inside it
\* each subscriber's mutex guards the push to its queue.
publish ==
    <<acquire("SseBroker", NoEvent), acquire("Subscriber", NoEvent),
      release("Subscriber"), release("SseBroker")>>

\* http.publishEvent(store.snapshotString()).
publishSnapshot == section("OrderStore", NoEvent) \o publish

\* The order handler on a request it accepts, for a limit and a market order.
orderHandler(id, isMarketOrder) ==
    (IF isMarketOrder THEN section("MarketSim", NoEvent) ELSE << >>)
    \o section("OrderStore", NoEvent)
    \o section("OrderStore", <<"ORDER_NEW", id>>)
    \o section("AuditLog", <<"ORDER_NEW", id>>)
    \o (IF isMarketOrder
        THEN section("MarketSim", NoEvent)
             \o section("OrderStore", <<"ORDER_FILLED", id>>)
             \o section("AuditLog", <<"ORDER_FILLED", id>>)
        ELSE << >>)
    \o publishSnapshot

\* The cancel handler on a request it accepts.
cancelHandler(id) ==
    section("OrderStore", NoEvent)
    \o section("OrderStore", <<"ORDER_CANCELED", id>>)
    \o section("AuditLog", <<"ORDER_CANCELED", id>>)
    \o publishSnapshot

\* PersistenceManager::doSave: store.snapshotJson() is called under mutex_.
doSaveLocks ==
    <<acquire("Persistence", NoEvent), acquire("OrderStore", NoEvent),
      release("OrderStore"), release("Persistence")>>

\* Variant of the content provider that asks the broker to drop its
\* subscriber while it still holds the subscriber's mutex; the lock order of
\* C39 must tell it from contentProvider.
contentProviderUnsubscribing ==
    <<acquire("Subscriber", NoEvent), acquire("SseBroker", NoEvent),
      release("SseBroker"), release("Subscriber")>>

\* The content provider of GET /events.
contentProvider == section("Subscriber", NoEvent)

LockRuns ==
    {orderHandler(id, m) : id \in ClOrdIds, m \in BOOLEAN}
    \cup {cancelHandler(id) : id \in ClOrdIds}
    \cup {doSaveLocks, contentProvider}

heldBy(th) == {holding[th][k] : k \in 1..Len(holding[th])}

\* A thread starts a call.
LockStart(th) ==
    /\ lockPc[th] = << >>
    /\ lockRuns < MaxLockRuns
    /\ \E run \in LockRuns : lockPc' = [lockPc EXCEPT ![th] = run]
    /\ lockRuns' = lockRuns + 1
    /\ UNCHANGED <<holding, storeOrder, auditOrder, besidesLocks>>

\* A thread takes a mutex no thread holds, and does what the critical section
\* does.
LockAcquire(th) ==
    /\ lockPc[th] # << >>
    /\ Head(lockPc[th]).op = "lock"
    /\ LET step == Head(lockPc[th])
       IN  /\ \A u \in LockThreads : step.mutex \notin heldBy(u)
           /\ holding' = [holding EXCEPT ![th] = Append(@, step.mutex)]
           /\ storeOrder' = IF step.mutex = "OrderStore" /\ step.event # NoEvent
                            THEN Append(storeOrder, step.event) ELSE storeOrder
           /\ auditOrder' = IF step.mutex = "AuditLog" /\ step.event # NoEvent
                            THEN Append(auditOrder, step.event) ELSE auditOrder
    /\ lockPc' = [lockPc EXCEPT ![th] = Tail(@)]
    /\ UNCHANGED <<lockRuns, besidesLocks>>

LockRelease(th) ==
    /\ lockPc[th] # << >>
    /\ Head(lockPc[th]).op = "unlock"
    /\ holding' = [holding EXCEPT ![th] =
                      SelectSeq(@, LAMBDA m : m # Head(lockPc[th]).mutex)]
    /\ lockPc' = [lockPc EXCEPT ![th] = Tail(@)]
    /\ UNCHANGED <<lockRuns, storeOrder, auditOrder, besidesLocks>>

NextLocks ==
    \/ \E th \in LockThreads : LockStart(th)
    \/ \E th \in LockThreads : LockAcquire(th)
    \/ \E th \in LockThreads : LockRelease(th)

SpecLocks == Init /\ [][NextLocks]_vars

\* --------------------------------------------------------------- shutdown
\* std::this_thread::sleep_for, and the save the Persistence worker makes
\* after its sleep if running_ still holds.
sleep == [op |-> "sleep", mutex |-> "", event |-> NoEvent]
saveIfRunning == [op |-> "saveIfRunning", mutex |-> "", event |-> NoEvent]

\* doSave as the worker runs it: store.snapshotJson() reads the store under
\* both mutexes.
doSaveSteps ==
    <<acquire("Persistence", NoEvent), acquire("OrderStore", <<"save", "">>),
      release("OrderStore"), release("Persistence")>>

\* The sleeps of the Persistence worker between two saves: 100 ms each, as
\* long as running_ holds.
RECURSIVE sleepChunks(_)
sleepChunks(n) == IF n = 0 THEN << >> ELSE <<sleep>> \o sleepChunks(n - 1)

\* One pass of the body of a worker's while (running_) loop.  The Fill Loop
\* finds one open order and fills it; the feed ticks and publishes on the
\* market-data channel.
iteration(w) ==
    CASE w = "fill" ->
           <<sleep>>
           \o section("OrderStore", NoEvent)
           \o section("MarketSim", NoEvent)
           \o section("OrderStore", <<"mutate", "">>)
           \o section("OrderStore", NoEvent)
           \o <<acquire("SseBroker", <<"publish", "">>), acquire("Subscriber", NoEvent),
                release("Subscriber"), release("SseBroker")>>
      [] w = "feed" ->
           <<sleep>>
           \o section("MarketSim", NoEvent)
           \o <<acquire("MarketBroker", <<"publish", "">>),
                acquire("MarketSubscriber", NoEvent),
                release("MarketSubscriber"), release("MarketBroker")>>
      [] w = "persist" -> sleepChunks(MaxSleepChunks) \o <<saveIfRunning>>

\* What a worker does between leaving its loop and returning.
afterLoop(w) == IF w = "persist" THEN doSaveSteps ELSE << >>

\* thread_.join(): the caller goes on when the thread has returned.
joinDetached(state) == TRUE

join(state) == state = "exited"

\* main(): the start of the components, the wait for the signal and the
\* shutdown sequence.
MainSteps ==
    <<"http.start", "fillSim.start", "marketFeed.start", "persistence.start",
      "acceptor.start", "wait", "persistence.stop", "persistence.join",
      "acceptor.stop", "marketFeed.stop", "marketFeed.join", "fillSim.stop",
      "fillSim.join", "http.stop", "done">>

mainAfter(pc) ==
    LET k == CHOOSE i \in 1..Len(MainSteps) : MainSteps[i] = pc
    IN  MainSteps[k + 1]

workerOf(pc) ==
    CASE pc \in {"fillSim.start", "fillSim.stop", "fillSim.join"} -> "fill"
      [] pc \in {"marketFeed.start", "marketFeed.stop", "marketFeed.join"} -> "feed"
      [] OTHER -> "persist"

\* main() takes its next step.
MainStep ==
    /\ mainPc # "done"
    /\ LET pc == IF mainPc = "start" THEN "http.start" ELSE mainPc
           w == workerOf(pc)
       IN  /\ CASE pc \in {"http.start", "acceptor.start"} ->
                     /\ serving' = serving \cup {IF pc = "http.start" THEN "http" ELSE "fix"}
                     /\ UNCHANGED <<wRunning, wState, stopped>>
                [] pc \in {"fillSim.start", "marketFeed.start", "persistence.start"} ->
                     /\ wRunning' = [wRunning EXCEPT ![w] = TRUE]
                     /\ wState' = [wState EXCEPT ![w] = "loop"]
                     /\ UNCHANGED <<serving, stopped>>
                [] pc \in {"fillSim.stop", "marketFeed.stop", "persistence.stop"} ->
                     /\ wRunning' = [wRunning EXCEPT ![w] = FALSE]
                     /\ UNCHANGED <<serving, wState, stopped>>
                [] pc \in {"fillSim.join", "marketFeed.join", "persistence.join"} ->
                     /\ join(wState[w])
                     /\ stopped' = stopped \cup {w}
                     /\ UNCHANGED <<serving, wRunning, wState>>
                [] pc \in {"http.stop", "acceptor.stop"} ->
                     /\ serving' = serving \ {IF pc = "http.stop" THEN "http" ELSE "fix"}
                     /\ UNCHANGED <<wRunning, wState, stopped>>
                [] OTHER -> UNCHANGED <<serving, wRunning, wState, stopped>>
           /\ mainPc' = mainAfter(pc)
    /\ UNCHANGED <<wPc, wHolding, wIters, storeVersion, finalSave, besidesShutdown>>

\* The test of while (running_).
WorkerLoop(w) ==
    /\ wState[w] = "loop"
    /\ wPc[w] = << >>
    /\ IF wRunning[w]
       THEN /\ wIters[w] < MaxIterations
            /\ wPc' = [wPc EXCEPT ![w] = iteration(w)]
            /\ wIters' = [wIters EXCEPT ![w] = @ + 1]
            /\ UNCHANGED wState
       ELSE /\ wPc' = [wPc EXCEPT ![w] = afterLoop(w)]
            /\ wState' = [wState EXCEPT ![w] = "final"]
            /\ UNCHANGED wIters
    /\ UNCHANGED <<mainPc, wRunning, wHolding, serving, storeVersion, finalSave,
                   stopped, besidesShutdown>>

\* A worker takes the next step of its iteration.
WorkerStep(w) ==
    /\ wPc[w] # << >>
    /\ LET step == Head(wPc[w])
       IN  /\ step.op = "lock" => \A u \in Workers :
                                     \A k \in 1..Len(wHolding[u]) :
                                        wHolding[u][k] # step.mutex
           /\ wHolding' = [wHolding EXCEPT ![w] =
                              CASE step.op = "lock" -> Append(@, step.mutex)
                                [] step.op = "unlock" ->
                                     SelectSeq(@, LAMBDA m : m # step.mutex)
                                [] OTHER -> @]
           /\ wPc' = [wPc EXCEPT ![w] =
                         IF step.op = "saveIfRunning" /\ wRunning[w]
                         THEN doSaveSteps \o Tail(@) ELSE Tail(@)]
           /\ storeVersion' = IF step.event[1] = "mutate"
                              THEN storeVersion + 1 ELSE storeVersion
           /\ finalSave' = IF step.event[1] = "save" /\ wState[w] = "final"
                           THEN [done |-> TRUE, version |-> storeVersion]
                           ELSE finalSave
    /\ UNCHANGED <<mainPc, wRunning, wState, wIters, serving, stopped, besidesShutdown>>

\* The worker's thread function returns.
WorkerExit(w) ==
    /\ wState[w] = "final"
    /\ wPc[w] = << >>
    /\ wState' = [wState EXCEPT ![w] = "exited"]
    /\ UNCHANGED <<mainPc, wRunning, wPc, wHolding, wIters, serving, storeVersion,
                   finalSave, stopped, besidesShutdown>>

\* A handler of the FIX acceptor or of the HTTP server writes to the store.
HandlerWrite(source) ==
    /\ source \in serving
    /\ storeVersion < MaxHandlerWrites
    /\ \A u \in Workers : \A k \in 1..Len(wHolding[u]) : wHolding[u][k] # "OrderStore"
    /\ storeVersion' = storeVersion + 1
    /\ UNCHANGED <<mainPc, wRunning, wState, wPc, wHolding, wIters, serving,
                   finalSave, stopped, besidesShutdown>>

NextShutdown ==
    \/ MainStep
    \/ \E w \in Workers : WorkerLoop(w)
    \/ \E w \in Workers : WorkerStep(w)
    \/ \E w \in Workers : WorkerExit(w)
    \/ \E source \in {"fix", "http"} : HandlerWrite(source)

SpecShutdown ==
    /\ Init
    /\ [][NextShutdown]_vars
    /\ WF_vars(MainStep)
    /\ \A w \in Workers :
          WF_vars(WorkerLoop(w)) /\ WF_vars(WorkerStep(w)) /\ WF_vars(WorkerExit(w))

\* ---------------------------------------------------------------- threads
\* Every thread of the gateway that takes a component lock or a subscriber
\* lock, as the sequence of locks one call or one loop iteration takes.  The
\* threads run these again and again; what is recorded of the critical
\* sections (storeOrder, auditOrder) plays no part here.
Mutexes == {"OrderStore", "MarketSim", "AuditLog", "Persistence", "SseBroker",
            "Subscriber", "MarketBroker", "MarketSubscriber"}

lockSteps(steps) == SelectSeq(steps, LAMBDA s : s.op \in {"lock", "unlock"})

\* FixApplication::onMessage(NewOrderSingle) on an order it accepts: exists,
\* upsert, shouldFill, updateStatus, publishSnapshot; on one it rejects:
\* exists, upsert, publishSnapshot.
fixNewOrder(accepted) ==
    section("OrderStore", NoEvent)
    \o section("OrderStore", NoEvent)
    \o (IF accepted
        THEN section("MarketSim", NoEvent) \o section("OrderStore", NoEvent)
        ELSE << >>)
    \o publishSnapshot

\* FixApplication::onMessage(OrderCancelRequest): get, updateStatus,
\* publishSnapshot.
fixCancel ==
    section("OrderStore", NoEvent) \o section("OrderStore", NoEvent) \o publishSnapshot

\* The amend handler: get, upsert, remove when the clOrdId changes, the audit
\* record, the snapshot.
amendHandler(rekeyed) ==
    section("OrderStore", NoEvent)
    \o section("OrderStore", NoEvent)
    \o (IF rekeyed THEN section("OrderStore", NoEvent) ELSE << >>)
    \o section("AuditLog", NoEvent)
    \o publishSnapshot

\* GET /snapshot and GET /stats read the store, GET /orderbook the simulator.
snapshotProvider == section("OrderStore", NoEvent)
orderBookProvider == section("MarketSim", NoEvent)

\* GET /events and GET /marketdata: broker.subscribe().
subscribe(broker) == section(broker, NoEvent)

\* The content provider of GET /marketdata.
marketContentProvider == section("MarketSubscriber", NoEvent)

ThreadRuns ==
    {orderHandler("A", m) : m \in BOOLEAN}
    \cup {cancelHandler("A")}
    \cup {amendHandler(k) : k \in BOOLEAN}
    \cup {fixNewOrder(a) : a \in BOOLEAN}
    \cup {fixCancel, snapshotProvider, orderBookProvider}
    \cup {subscribe("SseBroker"), subscribe("MarketBroker")}
    \cup {contentProvider, marketContentProvider}
    \cup {lockSteps(iteration(w)) : w \in {"fill", "feed"}}
    \cup {lockSteps(doSaveSteps)}

\* The thread waits for `mutex`: the next thing it does is take it.
waitsFor(th, mutex) ==
    /\ lockPc[th] # << >>
    /\ Head(lockPc[th]).op = "lock"
    /\ Head(lockPc[th]).mutex = mutex

\* The thread waits for a mutex some thread holds.
blocked(th) ==
    \E mutex \in Mutexes :
        waitsFor(th, mutex) /\ \E u \in LockThreads : mutex \in heldBy(u)

\* A thread begins a call or an iteration.
ThreadStart(th) ==
    /\ lockPc[th] = << >>
    /\ \E run \in ThreadRuns : lockPc' = [lockPc EXCEPT ![th] = run]
    /\ UNCHANGED <<holding, lockRuns, storeOrder, auditOrder, besidesLocks>>

\* std::lock_guard constructed: the thread takes a mutex no thread holds.
ThreadAcquire(th) ==
    /\ lockPc[th] # << >>
    /\ Head(lockPc[th]).op = "lock"
    /\ ~blocked(th)
    /\ holding' = [holding EXCEPT ![th] = Append(@, Head(lockPc[th]).mutex)]
    /\ lockPc' = [lockPc EXCEPT ![th] = Tail(@)]
    /\ UNCHANGED <<lockRuns, storeOrder, auditOrder, besidesLocks>>

\* The guard's scope ends.
ThreadRelease(th) ==
    /\ lockPc[th] # << >>
    /\ Head(lockPc[th]).op = "unlock"
    /\ holding' = [holding EXCEPT ![th] =
                      SelectSeq(@, LAMBDA m : m # Head(lockPc[th]).mutex)]
    /\ lockPc' = [lockPc EXCEPT ![th] = Tail(@)]
    /\ UNCHANGED <<lockRuns, storeOrder, auditOrder, besidesLocks>>

NextThreads ==
    \/ \E th \in LockThreads : ThreadStart(th)
    \/ \E th \in LockThreads : ThreadAcquire(th)
    \/ \E th \in LockThreads : ThreadRelease(th)

\* A thread inside a critical section runs on to the end of it, and a thread
\* parked on a mutex is woken when the mutex is given back: every holder
\* sleeps or ends its call between two critical sections.
SpecThreads ==
    /\ Init
    /\ [][NextThreads]_vars
    /\ \A th \in LockThreads : SF_vars(ThreadAcquire(th)) /\ WF_vars(ThreadRelease(th))

\* ---------------------------------------------------- snapshot publication
\* dump(json): the text of a document; two documents have the same text
\* exactly when they are equal.
dump(j) == [text |-> j]

\* OrderStore::snapshotString
snapshotString(s) == dump(snapshotJson(s))

\* POST /order for a limit order with a new clOrdId: the record is stored.
SnapOrderUpsert ==
    /\ snapPc["http"] = "idle"
    /\ snapRuns < MaxSnapRuns
    /\ \E id \in ClOrdIds :
         /\ ~exists(snapStore, id)
         /\ snapStore' = upsert(snapStore, FullRecord(id, "NEW", 200, 0))
    /\ snapPc' = [snapPc EXCEPT !["http"] = "snapshot"]
    /\ snapRuns' = snapRuns + 1
    /\ UNCHANGED <<snapOpen, snapAny, snapText, snapQueue, snapSink, besidesSnapshots>>

\* FillSimulator::run, top of an iteration: the copy of the open orders.
SnapFillWake ==
    /\ snapPc["fillLoop"] = "idle"
    /\ snapRuns < MaxSnapRuns
    /\ snapOpen' = getOpenOrders(snapStore)
    /\ snapAny' = FALSE
    /\ snapPc' = [snapPc EXCEPT !["fillLoop"] = "fill"]
    /\ snapRuns' = snapRuns + 1
    /\ UNCHANGED <<snapStore, snapText, snapQueue, snapSink, besidesSnapshots>>

\* One pass of the for loop.
SnapFillOrder ==
    /\ snapPc["fillLoop"] = "fill"
    /\ \E order \in snapOpen :
         /\ snapOpen' = snapOpen \ {order}
         /\ \E px \in Ticks, ratio \in FillRatios :
              LET r == attemptFill(order.side, order.price, order.leavesQty, px, ratio) IN
              IF r.fillQty > 0
              THEN /\ snapStore' = applyFill(snapStore, order, r)
                   /\ snapAny' = TRUE
              ELSE UNCHANGED <<snapStore, snapAny>>
    /\ UNCHANGED <<snapPc, snapText, snapQueue, snapSink, snapRuns, besidesSnapshots>>

\* After the for loop: if (anyFilled) the snapshot is published.
SnapFillEnd ==
    /\ snapPc["fillLoop"] = "fill"
    /\ snapOpen = {}
    /\ snapPc' = [snapPc EXCEPT !["fillLoop"] = IF snapAny THEN "snapshot" ELSE "idle"]
    /\ UNCHANGED <<snapStore, snapOpen, snapAny, snapText, snapQueue, snapSink, snapRuns,
                   besidesSnapshots>>

\* The argument of publishEvent is evaluated: store.snapshotString().
SnapSnapshot(th) ==
    /\ snapPc[th] = "snapshot"
    /\ snapText' = [snapText EXCEPT ![th] = snapshotString(snapStore)]
    /\ snapPc' = [snapPc EXCEPT ![th] = "publish"]
    /\ UNCHANGED <<snapStore, snapOpen, snapAny, snapQueue, snapSink, snapRuns,
                   besidesSnapshots>>

\* SseBroker::publish: the string is appended to the subscriber's queue.
SnapPublish(th) ==
    /\ snapPc[th] = "publish"
    /\ snapQueue' = pushEvent(snapQueue, snapText[th])
    /\ snapPc' = [snapPc EXCEPT ![th] = "idle"]
    /\ UNCHANGED <<snapStore, snapOpen, snapAny, snapText, snapSink, snapRuns,
                   besidesSnapshots>>

\* The subscriber's content provider pops the front and writes its frame.
SnapDeliver ==
    /\ snapQueue # << >>
    /\ snapSink' = Append(snapSink, sse_frame(Head(snapQueue)))
    /\ snapQueue' = Tail(snapQueue)
    /\ UNCHANGED <<snapStore, snapPc, snapOpen, snapAny, snapText, snapRuns,
                   besidesSnapshots>>

NextSnapshots ==
    \/ SnapOrderUpsert
    \/ SnapFillWake
    \/ SnapFillOrder
    \/ SnapFillEnd
    \/ \E th \in SnapThreads : SnapSnapshot(th)
    \/ \E th \in SnapThreads : SnapPublish(th)
    \/ SnapDeliver

SpecSnapshots == Init /\ [][NextSnapshots]_vars

\* ================================================================ claims
Stored == DOMAIN store.orders
StoredNext == DOMAIN store'.orders

\* C1: once the record stored under a clOrdId is FILLED, REJECTED or CANCELED,
\* no later step of any thread changes that record's status.
C1_TerminalStatusIsFinal ==
    [][\A c \in Stored \cap StoredNext :
          store.orders[c].status \in Terminal
              => store'.orders[c].status = store.orders[c].status]_vars

\* C2: in every reachable state every stored record that is NEW or PARTIAL has
\* leavesQty + cumQty = quantity.
C2_LeavesConservation ==
    \A c \in Stored :
        store.orders[c].status \in Open
            => store.orders[c].leavesQty + store.orders[c].cumQty
                   = store.orders[c].quantity

\* C3: of the new-order admissions that carry one clOrdId, through FIX or
\* through the UI, in sequence or overlapping, at most one is admitted as NEW.
C3_AtMostOneAdmission ==
    \A c \in ClOrdIds : admitted[c] <= 1

\* C4: a stored record that is NEW or PARTIAL changes status only along an edge
\* of the state machine: NEW to PARTIAL, FILLED or CANCELED, PARTIAL to
\* PARTIAL, FILLED or CANCELED; in particular PARTIAL never becomes NEW.
C4_OnlyLegalTransitions ==
    [][\A c \in Stored \cap StoredNext :
          (/\ store.orders[c].status \in Open
           /\ store'.orders[c].status # store.orders[c].status)
              => store'.orders[c].status \in {"PARTIAL", "FILLED", "CANCELED"}]_vars

\* The seven checks of a NewOrderSingle in the specified order, each with the
\* reason text and the OrdRejReason it reports.
NewOrderChecks(s, m) ==
    << [fails |-> m.symbol = "", text |-> "Symbol is required", code |-> 1],
       [fails |-> m.side \notin {"1", "2"},
        text |-> "Invalid side (must be 1=Buy or 2=Sell)", code |-> 99],
       [fails |-> m.qty <= 0, text |-> "OrderQty must be positive", code |-> 99],
       [fails |-> m.hasPrice /\ m.px <= 0,
        text |-> "Price must be positive for limit orders", code |-> 99],
       [fails |-> m.qty > 10000,
        text |-> "Order quantity exceeds limit (10000)", code |-> 3],
       [fails |-> m.hasPrice /\ m.qty * m.px > 1000000,
        text |-> "Notional exceeds limit ($1000000)", code |-> 3],
       [fails |-> m.clOrdId \in DOMAIN s.orders,
        text |-> "Duplicate ClOrdID", code |-> 6] >>

Failing(s, m) == {i \in 1..7 : NewOrderChecks(s, m)[i].fails}

FirstFailing(s, m) ==
    IF Failing(s, m) = {} THEN 0
    ELSE CHOOSE i \in Failing(s, m) : \A j \in Failing(s, m) : i <= j

\* C5: the ExecutionReport that answers a NewOrderSingle is REJECTED with the
\* text and code of the first failing check in the specified order, and NEW
\* when no check fails; a record is stored as NEW only for a message that
\* passes every check, and a failing message is stored as REJECTED.
C5_FirstFailingCheckWins ==
    [][/\ (fixPc = "idle" /\ fixMsg'.type = "D") =>
             LET i == FirstFailing(store, fixMsg') IN
             IF i = 0
             THEN /\ fixReport'.type = "ExecutionReport"
                  /\ fixReport'.ordStatus = "NEW"
                  /\ fixPc' = "nosUpsert"
             ELSE /\ fixReport'.type = "ExecutionReport"
                  /\ fixReport'.ordStatus = "REJECTED"
                  /\ fixReport'.text = NewOrderChecks(store, fixMsg')[i].text
                  /\ fixReport'.code = NewOrderChecks(store, fixMsg')[i].code
                  /\ fixPc' = "nosReject"
       /\ (fixMsg.type = "D" /\ fixPc \in {"nosReject", "nosUpsert"}) =>
             /\ fixMsg.clOrdId \in StoredNext
             /\ (store'.orders[fixMsg.clOrdId].status = "NEW")
                    = (FirstFailing(store, fixMsg) = 0)
             /\ (store'.orders[fixMsg.clOrdId].status = "REJECTED")
                    = (FirstFailing(store, fixMsg) # 0)]_vars

\* A message that breaks the quantity limit and repeats a stored clOrdId has
\* been refused for the quantity, the earlier of the two checks.
C5_Witness ==
    /\ fixPc = "nosReject"
    /\ fixMsg.symbol = "AAPL" /\ fixMsg.side = "1"
    /\ fixMsg.qty = 10001 /\ ~fixMsg.hasPrice
    /\ fixMsg.clOrdId \in Stored
    /\ fixReport.text = "Order quantity exceeds limit (10000)"
    /\ fixReport.code = 3

\* The fills applied to the order stored under c, as the history has them.
FilledQty(c) == fills[c].q
FilledValue(c) == fills[c].pq

\* C6: for every stored order that is NEW, PARTIAL or FILLED and whose fills
\* all came from the Fill Loop, cumQty is the sum of the sizes of the fills
\* applied to it and avgPx * cumQty is the sum of size * price over them.
C6_VwapLaw ==
    \A c \in Stored :
        (store.orders[c].status \in {"NEW", "PARTIAL", "FILLED"} /\ ~fills[c].direct)
            => /\ store.orders[c].cumQty = FilledQty(c)
               /\ store.orders[c].avgPx[1] * store.orders[c].cumQty
                      = FilledValue(c) * store.orders[c].avgPx[2]

\* C7: in every reachable state every stored record that is FILLED, REJECTED or
\* CANCELED has leavesQty = 0.
C7_TerminalLeavesZero ==
    \A c \in Stored :
        store.orders[c].status \in Terminal => store.orders[c].leavesQty = 0

\* C8: the response to an OrderCancelRequest follows the record stored under
\* origClOrdId (absent: UNKNOWN_ORDER with OrderID UNKNOWN; FILLED:
\* TOO_LATE_TO_CANCEL; CANCELED: DUPLICATE_CLORDID; otherwise ExecutionReport
\* CANCELED); a reject leaves the store unchanged and publishes nothing; after
\* ExecutionReport CANCELED the handler turns a record that is neither FILLED
\* nor CANCELED into CANCELED with leavesQty = cumQty = 0 and avgPx = 0 and
\* publishes a snapshot.
C8_CancelOutcome ==
    [][/\ (fixPc = "idle" /\ fixReport'.origClOrdId # "") =>
             LET c == fixReport'.origClOrdId IN
             /\ (fixReport'.type = "OrderCancelReject")
                    = (c \notin Stored \/ store.orders[c].status \in {"FILLED", "CANCELED"})
             /\ c \notin Stored =>
                    fixReport'.text = "UNKNOWN_ORDER" /\ fixReport'.orderId = "UNKNOWN"
             /\ (c \in Stored /\ store.orders[c].status = "FILLED") =>
                    fixReport'.text = "TOO_LATE_TO_CANCEL"
             /\ (c \in Stored /\ store.orders[c].status = "CANCELED") =>
                    fixReport'.text = "DUPLICATE_CLORDID"
             /\ fixReport'.type = "OrderCancelReject" =>
                    store' = store /\ pub' = "none" /\ fixPc' = "idle"
             /\ fixReport'.type # "OrderCancelReject" =>
                    /\ fixReport'.type = "ExecutionReport"
                    /\ fixReport'.ordStatus = "CANCELED"
                    /\ fixPc' = "cxlWrite"
       /\ (fixPc = "cxlWrite" /\ fixPc' = "idle") =>
             /\ pub' = "fix"
             /\ fixMsg.origClOrdId \in Stored
             /\ store.orders[fixMsg.origClOrdId].status \notin {"FILLED", "CANCELED"}
             /\ fixMsg.origClOrdId \in StoredNext
             /\ store'.orders[fixMsg.origClOrdId].status = "CANCELED"
             /\ store'.orders[fixMsg.origClOrdId].leavesQty = 0
             /\ store'.orders[fixMsg.origClOrdId].cumQty = 0
             /\ store'.orders[fixMsg.origClOrdId].avgPx = Px(0)]_vars

\* C9: when the amend handler applies an amend (its upsert), the target record
\* is stored with status NEW or PARTIAL, the amended quantity is not above the
\* stored quantity, and it is not below the stored cumQty.
C9_AmendOnlyOpenOrders ==
    [][(uiPc = "amdUpsert" /\ uiPc' = "amdRemove") =>
          /\ uiReq.origClOrdId \in Stored
          /\ store.orders[uiReq.origClOrdId].status \in Open
          /\ uiRec.quantity <= store.orders[uiReq.origClOrdId].quantity
          /\ uiRec.quantity >= store.orders[uiReq.origClOrdId].cumQty]_vars

\* C10: a step in which the UI order, cancel or amend handler returns false
\* with a message leaves the store as it was and publishes no snapshot.
C10_RejectedRequestWritesNothing ==
    [][(uiResult'.msg # "" /\ ~uiResult'.ok) => (store' = store /\ pub' = "none")]_vars

\* The order handler has refused a duplicate of a stored order.
C10_Witness ==
    /\ ~uiResult.ok
    /\ uiResult.msg = "Duplicate ClOrdID"
    /\ store # EmptyStore
    /\ pub = "none"

\* The payloads published since s subscribed, and the frames s wrote.
Expected(s) == SubSeq(published, joinedAt[s] + 1, Len(published))
Delivered(s) == sink[s]

persistedSnapshot(s) ==
    LET idx == SelectSeq(s.orderIndex, LAMBDA id : id \in DOMAIN s.orders)
    IN  [i \in 1..Len(idx) |-> [f \in PersistedFields |-> s.orders[idx[i]][f]]]

\* C12: when a store has been saved and the file is then loaded into a fresh
\* empty store, the fresh store lists the same records in the same order,
\* equal on every persisted field.
C12_SaveLoadRoundTrip ==
    (loaded.done /\ loaded.after)
        => persistedSnapshot(loaded.store) = persistedSnapshot(loaded.saved)

\* C14: every doSave call that returns has incremented the save counter by
\* one; stop() returns only after the worker's final save wrote its document;
\* and a stop() that has cleared the running flag does return.
C14_StopRunsFinalSave ==
    /\ [][saveReturned' # "none" => saveCount_' = saveCount_ + 1]_vars
    /\ [](stopPc = "returned" => finalSaved)
    /\ (stopPc = "join") ~> (stopPc = "returned")

Books ==
    UNION {{returns[i][k].value :
               k \in {n \in 1..Len(returns[i]) : returns[i][n].op = "getOrderBook"}} :
           i \in SimIds}

\* C16: in every book getOrderBook returns, bid prices do not increase, ask
\* prices do not decrease, and the best bid is strictly below the best ask.
C16_BookOrdered ==
    \A b \in Books :
        /\ \A i \in 2..Len(b.bids) : b.bids[i].price <= b.bids[i - 1].price
        /\ \A i \in 2..Len(b.asks) : b.asks[i].price >= b.asks[i - 1].price
        /\ (Len(b.bids) > 0 /\ Len(b.asks) > 0) => b.bids[1].price < b.asks[1].price

\* No handler is between two of its steps and the Fill Loop sleeps.
Quiescent == fixPc = "idle" /\ uiPc = "idle" /\ fillPc = "sleep"

\* The Audit Log event of a terminal status.
auditEvent(status) ==
    CASE status = "FILLED" -> "ORDER_FILLED"
      [] status = "REJECTED" -> "ORDER_REJECTED"
      [] status = "CANCELED" -> "ORDER_CANCELED"

\* C17: once the thread that moved a record into FILLED, REJECTED or CANCELED
\* has finished its handler (or Fill-Loop pass), the Audit Log holds the
\* record of that event for that clOrdId.
C17_TerminalTransitionsAudited ==
    Quiescent =>
        \A c \in Stored :
            store.orders[c].status \in Terminal
                => <<auditEvent(store.orders[c].status), c>> \in audit

\* C18: a step that admits a record as NEW, on the FIX thread or on the HTTP
\* thread, stores a record with 0 < quantity <= MAX_ORDER_QTY and
\* price * quantity <= MAX_NOTIONAL.
C18_AdmittedWithinLimits ==
    [][\A c \in ClOrdIds :
          admitted'[c] > admitted[c]
              => /\ c \in StoredNext
                 /\ store'.orders[c].status = "NEW"
                 /\ 0 < store'.orders[c].quantity
                 /\ store'.orders[c].quantity <= MAX_ORDER_QTY
                 /\ store'.orders[c].price * store'.orders[c].quantity <= MAX_NOTIONAL]_vars

\* An unpriced FIX order and a UI market order priced at the mark are both
\* admitted.
C18_Witness ==
    /\ admitted["A"] = 1 /\ admitted["B"] = 1
    /\ {"A", "B"} \subseteq Stored
    /\ store.orders["A"].status = "NEW" /\ store.orders["A"].price = 0
    /\ store.orders["B"].status = "NEW" /\ store.orders["B"].price = 180

snapshotIds(s) ==
    [i \in 1..Len(snapshotJson(s).items) |-> snapshotJson(s).items[i].members["clOrdId"]]

\* C20: an upsert of a new clOrdId appends it to the order of the snapshot and
\* changes no other record; an upsert of a stored clOrdId replaces that record
\* and leaves the order and the number of records as they were; the snapshot
\* lists each stored record once, so its order is the order of first upserts.
C20_UpsertKeepsOrder ==
    [][pStore' # pStore
          => LET before == snapshotIds(pStore)
                 after == snapshotIds(pStore')
             IN  /\ Len(after) = Cardinality(DOMAIN pStore'.orders)
                 /\ \/ /\ after = before
                       /\ DOMAIN pStore'.orders = DOMAIN pStore.orders
                       /\ Cardinality({c \in DOMAIN pStore.orders :
                                          pStore'.orders[c] # pStore.orders[c]}) = 1
                    \/ \E c \in ClOrdIds \ DOMAIN pStore.orders :
                          /\ after = Append(before, c)
                          /\ DOMAIN pStore'.orders = DOMAIN pStore.orders \cup {c}
                          /\ \A d \in DOMAIN pStore.orders :
                                pStore'.orders[d] = pStore.orders[d]]_vars

\* The store was saved holding A then B, and A has been overwritten since:
\* the snapshot still lists A first.
C20_Witness ==
    /\ lastSaved.done
    /\ snapshotIds(lastSaved.store) = <<"A", "B">>
    /\ snapshotIds(pStore) = <<"A", "B">>
    /\ pStore.orders["A"] # lastSaved.store.orders["A"]
    /\ pStore.orders["B"] = lastSaved.store.orders["B"]

\* C21: exists(c) holds exactly for the clOrdIds upserted and not removed
\* since, and so answers every exists call; updateStatus and reject on a
\* clOrdId that is not stored leave the store as it was; getStats counts one
\* order per stored clOrdId.
C21_StoreTracksUpserts ==
    /\ [](/\ \A c \in ClOrdIds : exists(tStore, c) <=> c \in present
          /\ getStats(tStore).totalOrders = Cardinality(present)
          /\ Len(tStore.orderIndex) = Cardinality(present)
          /\ tLast.op = "exists" => (tLast.flag <=> tLast.id \in present)
          /\ tLast.op = "getStats" => tLast.count = Cardinality(present))
    /\ [][(tDone' # tDone /\ tLast'.op \in {"updateStatus", "reject"} /\ tLast'.absent)
             => tStore' = tStore]_vars

\* Two threads have each upserted a clOrdId of their own, and a reject of a
\* removed clOrdId has just run.
C21_Witness ==
    /\ tDone = MaxStoreCalls
    /\ present = {"A"}
    /\ tLast.op = "reject" /\ tLast.id = "B" /\ tLast.absent
    /\ getStats(tStore).totalOrders = 1

\* The latencies getStats ranks, and the rank rule of the 99th percentile:
\* index min(floor(0.99 n), n - 1) of the ascending order holds value v when
\* at most that many latencies are below v and more than that many are at
\* most v.
measured(s) == {c \in DOMAIN s.orders : s.orders[c].latencyUs > 0}

p99AtRank(s, v) ==
    LET n == Cardinality(measured(s))
        idx == IF (99 * n) \div 100 > n - 1 THEN n - 1 ELSE (99 * n) \div 100
    IN  n > 0 =>
          /\ Cardinality({c \in measured(s) : s.orders[c].latencyUs < v}) <= idx
          /\ Cardinality({c \in measured(s) : s.orders[c].latencyUs <= v}) > idx

\* The store holds 100 orders with the latencies 1..100.
isRamp(s) ==
    /\ DOMAIN s.orders = 1..100
    /\ \A c \in DOMAIN s.orders : s.orders[c].latencyUs = c

\* C22: getStats().p99LatencyUs is the element at index floor(0.99 n), clamped
\* to n - 1, of the ascending latencies of the n records with latencyUs > 0;
\* for 100 orders with the latencies 1..100 that element is 100.
C22_P99AtFlooredIndex ==
    tLast.op = "getStats" =>
        /\ p99AtRank(tStore, tLast.p99)
        /\ isRamp(tStore) => tLast.p99 = 100

\* C22 as the specification words it: the same rule, and 99 for the 100
\* orders with the latencies 1..100.
C22_Original ==
    tLast.op = "getStats" =>
        /\ p99AtRank(tStore, tLast.p99)
        /\ isRamp(tStore) => tLast.p99 = 99

\* getStats has run on the 100 orders with the latencies 1..100.
C22_Witness == tLast.op = "getStats" /\ isRamp(tStore) /\ tLast.p99 = 100

\* C23: the n-th order identifier returned is ORD followed by the decimal
\* digits of n and the n-th execution identifier EXEC followed by them, so the
\* numbers start at 1 and rise strictly in the order of the calls, and no
\* identifier is returned twice, whichever threads make the calls.
C23_IdsCountFromOne ==
    /\ \A i \in 1..Len(orderIds) : orderIds[i] = <<"ORD">> \o to_string(i)
    /\ \A i \in 1..Len(execIds) : execIds[i] = <<"EXEC">> \o to_string(i)
    /\ \A i, j \in 1..Len(orderIds) : i # j => orderIds[i] # orderIds[j]
    /\ \A i, j \in 1..Len(execIds) : i # j => execIds[i] # execIds[j]

\* Two handlers have drawn identifiers in turn, and the execution numbers
\* have reached two digits.
C23_Witness ==
    /\ Len(orderIds) >= 2
    /\ Len(execIds) >= 10
    /\ execIds[10] = <<"EXEC", 1, 0>>
    /\ \E th \in IdThreads : idPc[th] = <<"exec">>

\* The entries of the orders array of a file that name an order.
wellFormedEntries(file) ==
    LET items == file.json.members["orders"].items
    IN  {i \in 1..Len(items) : /\ items[i].type = "object"
                               /\ "clOrdId" \in DOMAIN items[i].members}

hasOrders(file) ==
    /\ file.present /\ file.wellFormed
    /\ file.json.type = "object"
    /\ "orders" \in DOMAIN file.json.members
    /\ file.json.members["orders"].type = "array"

\* C24: load always returns; a file that does not parse loads nothing; of a
\* file with an orders array every entry that names an order is handed to the
\* loader, whatever the entries before it are.
C24_MalformedEntrySkipped ==
    loaded.done =>
        /\ (canonical.present /\ ~canonical.wellFormed) =>
              (loaded.count = 0 /\ loaded.store = EmptyStore)
        /\ hasOrders(canonical) =>
              \A i \in wellFormedEntries(canonical) :
                  exists(loaded.store,
                         canonical.json.members["orders"].items[i].members["clOrdId"])

\* C25: in every reachable state a stored record carries a reject reason
\* exactly when its status is REJECTED.
C25_RejectReasonIffRejected ==
    \A c \in Stored :
        store.orders[c].rejectReason # "" <=> store.orders[c].status = "REJECTED"

\* The step that ends an amend which changes the key of the order.
amendRekeyed == uiPc = "amdRemove" /\ uiPc' = "idle" /\ uiReq.clOrdId # uiReq.origClOrdId

\* C26: a successful amend under a new clOrdId stores the amended record under
\* the new clOrdId and adds one key to the store, then leaves no record under
\* the original clOrdId and takes one key from the store, so that the number
\* of records is what it was, and it writes an ORDER_REPLACED audit record.
C26_AmendRekeys ==
    /\ [][(uiPc = "amdUpsert" /\ uiPc' = "amdRemove"
              /\ uiReq.clOrdId # uiReq.origClOrdId)
            => /\ store'.orders[uiReq.clOrdId] = uiRec
               /\ Cardinality(StoredNext) = Cardinality(Stored) + 1]_vars
    /\ [][amendRekeyed
            => /\ exists(store', uiReq.clOrdId)
               /\ ~exists(store', uiReq.origClOrdId)
               /\ Cardinality(StoredNext) = Cardinality(Stored) - 1
               /\ <<"ORDER_REPLACED", uiReq.origClOrdId>> \in audit']_vars

\* C27: the record a successful amend stores has price x quantity of at most
\* MAX_NOTIONAL, whether the amend changed the price, the quantity or both.
C27_AmendedNotionalWithinLimit ==
    [][(uiPc = "amdUpsert" /\ uiPc' = "amdRemove")
         => store'.orders[uiReq.clOrdId].price * store'.orders[uiReq.clOrdId].quantity
                <= MAX_NOTIONAL]_vars

\* C28: an attemptFill call returns a fill quantity between 0 and leavesQty,
\* which is 0 when nothing is left; it fills nothing and is not complete when
\* the tick it draws is not at or inside the limit or the side is neither buy
\* nor sell; otherwise it fills at least one share, all of them when at most
\* 100 are left; and it is complete exactly when it filled all that was left
\* and that was more than nothing.
C28_AttemptFillBounds ==
    [][\A i \in SimIds :
          (Len(returns'[i]) = Len(returns[i]) + 1
             /\ calls[Len(returns'[i])].op = "attemptFill")
          => LET c == calls[Len(returns'[i])]
                 r == returns'[i][Len(returns'[i])].value
                 px == nextTickUnsafe(sims[i], c.symbol).value
                 favourable == \/ c.side = "1" /\ px <= c.limitPx
                               \/ c.side = "2" /\ px >= c.limitPx
             IN  /\ 0 <= r.fillQty
                 /\ c.leavesQty <= 0 => r.fillQty = 0
                 /\ c.leavesQty > 0 => r.fillQty <= c.leavesQty
                 /\ ~favourable => (r.fillQty = 0 /\ ~r.complete)
                 /\ (favourable /\ c.leavesQty > 0) => r.fillQty >= 1
                 /\ (favourable /\ c.leavesQty > 0 /\ c.leavesQty <= 100)
                       => r.fillQty = c.leavesQty
                 /\ r.complete <=> (r.fillQty = c.leavesQty /\ r.fillQty > 0)]_vars

\* Simulator 1 has answered a sell that its tick did not reach, a small buy
\* filled whole, and a large buy filled in part.
C28_Witness ==
    /\ Len(returns[1]) = 3
    /\ \A k \in 1..3 : calls[k].op = "attemptFill"
    /\ calls[1].side = "2" /\ calls[1].leavesQty = 500 /\ returns[1][1].value.fillQty = 0
    /\ calls[2].side = "1" /\ calls[2].leavesQty = 100
    /\ returns[1][2].value.complete
    /\ calls[3].side = "1" /\ calls[3].leavesQty = 500
    /\ returns[1][3].value.fillQty \in 1..499
    /\ ~returns[1][3].value.complete

\* C29: once every handler has returned, the Audit Log lists the records of
\* the mutations in the order in which the mutations took the lock of the
\* Order Store.
C29_AuditInStoreLockOrder ==
    (\A th \in LockThreads : lockPc[th] = << >>) => auditOrder = storeOrder

\* C30: no thread holds two mutexes at once.
C30_OneLockAtATime ==
    \A th \in LockThreads : Len(holding[th]) <= 1

\* A step taken by the Fill Loop thread.
fillLoopStep == openOrders' # openOrders \/ fillPc' # fillPc

\* C31: a step that changes the leavesQty, cumQty or avgPx of a stored record
\* that is NEW or PARTIAL is a step of the Fill Loop.
C31_OnlyFillLoopWritesOpenQuantities ==
    [][\A c \in Stored \cap StoredNext :
          (/\ store.orders[c].status \in Open
           /\ \/ store'.orders[c].leavesQty # store.orders[c].leavesQty
              \/ store'.orders[c].cumQty # store.orders[c].cumQty
              \/ store'.orders[c].avgPx # store.orders[c].avgPx)
          => fillLoopStep]_vars

C38_NoWriteAfterFinalSave ==
    /\ [][finalSave.done => storeVersion' = storeVersion]_vars
    /\ [](mainPc = "done" => (finalSave.done /\ finalSave.version = storeVersion))

\* C33: the step in which the FIX handler rejects a NewOrderSingle leaves the
\* status, quantity, leavesQty, cumQty and avgPx of a record already stored
\* under the message's clOrdId as they were.
C33_RejectKeepsStoredRecord ==
    [][(fixPc = "nosReject" /\ fixPc' = "idle" /\ fixMsg.clOrdId \in Stored)
         => LET before == store.orders[fixMsg.clOrdId]
                after == store'.orders[fixMsg.clOrdId]
            IN  /\ after.status = before.status
                /\ after.quantity = before.quantity
                /\ after.leavesQty = before.leavesQty
                /\ after.cumQty = before.cumQty
                /\ after.avgPx = before.avgPx]_vars

\* C34: when the Fill Loop writes a fill, the record it writes to is still
\* the one it copied: stored, NEW or PARTIAL, and equal to the copy.
C34_FillOnlyOnUnchangedOpenOrder ==
    [][(fillLoopStep /\ store' # store)
         => \A order \in openOrders \ openOrders' :
               /\ exists(store, order.clOrdId)
               /\ store.orders[order.clOrdId].status \in Open
               /\ store.orders[order.clOrdId] = order]_vars

\* C35: the cumQty of a record that is and stays NEW or PARTIAL does not
\* decrease.
C35_CumQtyNeverDecreases ==
    [][\A c \in Stored \cap StoredNext :
          (store.orders[c].status \in Open /\ store'.orders[c].status \in Open)
          => store'.orders[c].cumQty >= store.orders[c].cumQty]_vars

\* C36: the steps in which a successful amend writes to the store leave every
\* record stored under a clOrdId other than origClOrdId as it was.
C36_AmendTouchesOnlyItsOrder ==
    [][(uiPc \in {"amdUpsert", "amdRemove"} /\ uiPc' # uiPc)
         => \A c \in Stored \ {uiReq.origClOrdId} :
               c \in StoredNext /\ store'.orders[c] = store.orders[c]]_vars

\* C40: a stored FILLED record has cumQty = quantity and a stored PARTIAL
\* record has 0 < cumQty < quantity.
C40_StatusMatchesCumQty ==
    \A c \in Stored :
        /\ store.orders[c].status = "FILLED"
              => store.orders[c].cumQty = store.orders[c].quantity
        /\ store.orders[c].status = "PARTIAL"
              => (0 < store.orders[c].cumQty
                  /\ store.orders[c].cumQty < store.orders[c].quantity)

\* C37: when no handler and no Fill Loop iteration is under way and the
\* subscriber's queue is empty, the last payload the subscriber received is
\* the snapshot of the store as it is now: no older snapshot was published
\* after a newer one.
C37_LastPayloadIsCurrentSnapshot ==
    (/\ \A th \in SnapThreads : snapPc[th] = "idle"
     /\ snapQueue = << >>
     /\ snapSink # << >>)
        => snapSink[Len(snapSink)].data = snapshotString(snapStore)

====
